---- MODULE Spec2Model ----
(***************************************************************************)
(* A model of the KFile contract of libs/kfs/file.c: the polymorphic,     *)
(* reference-counted random-access file object, its versioned dispatch    *)
(* table and the completion loops (ReadAll, ReadExactly, WriteAll and     *)
(* their timed variants) built on the table's primitive operations.       *)
(*                                                                         *)
(* One API call is a little state machine: its entry code runs up to the  *)
(* first call through the dispatch table (or to its return), the backend  *)
(* answers, and the code resumes from that answer.  The operator named    *)
(* after a function models the function's entry code; <name>_resume       *)
(* models the code after a backend call returned.                         *)
(***************************************************************************)
EXTENDS Integers, Sequences, FiniteSets, TLC

VARIABLES
    alive,      \* an object is allocated
    inited,     \* the object went through a successful KFileInit
    kfile,      \* the KFile object: vt (maj, min), dir, refcount, read_enabled, write_enabled
    call,       \* the API call in progress on the object
    trace,      \* the dispatch-table calls the call in progress has made, with their answers
    store,      \* the bytes a storing backend holds
    buffer,     \* the caller's buffer handed to the last read call
    lastWrite,  \* the last completed KFileWriteAll, while nothing has written since
    nAdd,       \* successful KFileAddRef calls since KFileInit
    nRel,       \* KFileRelease calls since KFileInit
    addFailed,  \* some KFileAddRef was refused
    addAfterRel,\* some KFileAddRef came after a KFileRelease
    teardowns,  \* invocations of the teardown routine since KFileInit
    whackRel,   \* the number of the KFileRelease that invoked the teardown (0: none)
    debugging,  \* the library was built with _DEBUGGING
    lastInit,   \* the KFileInit call made on the object: arguments, object before it, result
    tcall,      \* per thread: the KFileAddRef or KFileRelease call the thread is in
    held,       \* per thread: the references to the object the thread holds
    whack,      \* the state of the references when a thread's Release entered the teardown
    sock,       \* the KSocket object: fd, path, type, read_timeout, write_timeout
    salive,     \* the KSocket object is allocated
    fds,        \* the descriptors the OS handed out, in order, and what was done to each
    sop,        \* the socket function in progress and where it stands
    sys,        \* the system calls the socket function in progress has made
    misuse,     \* a system call was made on a closed or unset descriptor
    objs,       \* the other KSocket objects: the listener and the stream Accept made
    fs          \* the paths that exist in the filesystem

vars == << alive, inited, kfile, call, trace, store, buffer, lastWrite,
           nAdd, nRel, addFailed, addAfterRel, teardowns, whackRel,
           debugging, lastInit, tcall, held, whack,
           sock, salive, fds, sop, sys, misuse, objs, fs >>

refvars == << nAdd, nRel, addFailed, addAfterRel, teardowns, whackRel >>

\* what only the construction of an object sets
initvars == << debugging, lastInit >>

\* the threads sharing an object
mtvars == << tcall, held, whack >>

\* the socket and the operating system's side of it
sockvars == << sock, salive, fds, sop, sys, misuse, objs, fs >>

(***************************************************************************)
(* Bounds of the model.                                                    *)
(***************************************************************************)
MaxSize == 3        \* largest buffer size a call is given
MaxPos == 1         \* largest starting position a call is given
MaxTimeouts == 2    \* Timeout answers a backend gives within one call
RefLimit == 3       \* the largest count the reference counter represents
MaxRefOps == 4      \* AddRef calls, and Release calls, followed on one object
NThreads == 2       \* threads sharing one object
MaxRetry == 1       \* largest retry budget a caller gives a connection
MaxSleeps == 2      \* sleeps followed within one connect loop
MaxDrain == 1       \* non-empty receives the teardown is answered with
MaxBuf == 1         \* largest buffer a socket read or write is given
MaxFds == 2         \* descriptors followed before another listener or stream is made
MaxSent == 2        \* bytes a client sends over one connection

NoVal == 0 - 1       \* an out-parameter the call has no pointer to, or never wrote

(***************************************************************************)
(* Return codes.  A backend answers OK, Timeout (rcTimeout, rcExhausted)   *)
(* or IOErr (any other error); the contract adds its own.                  *)
(***************************************************************************)
BackendErrors == { "Timeout", "IOErr" }

Majors == 0 .. 2
Minors == 0 .. 2

ReadOps  == { "Read", "TimedRead", "ReadAll", "TimedReadAll", "ReadExactly", "TimedReadExactly" }
WriteOps == { "Write", "TimedWrite", "WriteAll", "TimedWriteAll" }
PlainOps == { "Destroy", "RandomAccess", "Size", "SetSize" }
TimedOps == { "TimedRead", "TimedReadAll", "TimedReadExactly", "TimedWrite", "TimedWriteAll" }
AllOps   == ReadOps \cup WriteOps \cup PlainOps

\* the operations that ask the backend what it is
QueryOps == { "GetSysFile", "Type" }

\* the plain read/write function a dispatch table always has, and the timed ones of minor 2
PlainFns == { "read", "write" }
TimedFns == { "timed_read", "timed_write" }
TransferFns == PlainFns \cup TimedFns

\* the routines that take the object down: the backend's destroy hook, reached
\* through KFileDestroy, and the owning directory's KDirectoryDestroyFile
Teardowns == { "destroy", "KDirectoryDestroyFile" }

NoReq == [ fn |-> "none", off |-> 0, len |-> 0, tm |-> "none" ]

Idle == [ op |-> "none", selfNull |-> FALSE, pos |-> 0, size |-> 0, bufNull |-> FALSE,
          outNull |-> FALSE, tm |-> "null", data |-> << >>, pc |-> "idle", rc |-> "OK",
          num |-> NoVal, total |-> 0, phase |-> "none", req |-> NoReq ]

\* the NULL handle
NULL == [ null |-> TRUE ]

\* a call as its caller makes it: the arguments, nothing executed yet
NewCall(op, pos, size, bufNull, outNull, tm, data) ==
    [ Idle EXCEPT !.op = op, !.pos = pos, !.size = size, !.bufNull = bufNull,
                  !.outNull = outNull, !.tm = tm, !.data = data, !.pc = "entry" ]

\* "return rc"
Return(c, rc) == [ c EXCEPT !.pc = "done", !.rc = rc, !.req = NoReq ]

\* a call through the dispatch table: ( * self -> vt -> v1 . fn ) ( self, off, ..., len, ..., tm )
Invoke(c, fn, off, len, tm) ==
    [ c EXCEPT !.pc = "wait", !.req = [ fn |-> fn, off |-> off, len |-> len, tm |-> tm ] ]

IsTimeout(rc) == rc = "Timeout"

(***************************************************************************)
(* Single-call operations.                                                 *)
(***************************************************************************)

\* KFileDestroy: self is the live object (never NULL here)
KFileDestroy(self, c) ==
    IF self.vt.maj = 1
        THEN Invoke(c, "destroy", 0, 0, "none")
        ELSE Return(c, "BadVersion")

KFileRandomAccess(self, c) ==
    IF self.vt.maj = 1
        THEN Invoke(c, "random_access", 0, 0, "none")
        ELSE Return(c, "BadVersion")

\* KFileGetSysFile: outNull is "offset == NULL"; num is *offset; the result is the
\* backend's KSysFile or NULL
KFileGetSysFile(self, c) ==
    IF c.outNull
        THEN Return(c, "NULL")
        ELSE LET c1 == [ c EXCEPT !.num = 0 ] IN
             IF self.vt.maj = 1
                 THEN Invoke(c1, "get_sysfile", 0, 0, "none")
                 ELSE Return(c1, "NULL")

\* KFileType: the result is the backend's type, or kfdInvalid
KFileType(self, c) ==
    IF self.vt.maj = 1 /\ self.vt.min >= 1
        THEN Invoke(c, "get_type", 0, 0, "none")
        ELSE Return(c, "kfdInvalid")

\* KFileSize: outNull is "size == NULL"; num is *size
KFileSize(self, c) ==
    IF c.outNull
        THEN Return(c, "ParamNull")
        ELSE LET c1 == [ c EXCEPT !.num = 0 ] IN
             IF self.vt.maj = 1
                 THEN Invoke(c1, "get_size", 0, 0, "none")
                 ELSE Return(c1, "BadVersion")

KFileSetSize(self, c) ==
    IF ~ self.write_enabled
        THEN Return(c, "NoPerm")
        ELSE IF self.vt.maj = 1
                 THEN Invoke(c, "set_size", 0, c.size, "none")
                 ELSE Return(c, "BadVersion")

\* "return ( * vt -> fn ) ( ... )": the backend's result is the call's result; a
\* backend that was given an out-parameter has written its count there
ReturnBackend(c, r) ==
    [ Return(c, r.rc) EXCEPT !.num = IF c.num = NoVal THEN NoVal ELSE r.count ]

(***************************************************************************)
(* Read, TimedRead.                                                        *)
(***************************************************************************)

\* a variant that hands a zero-size buffer to the backend
KFileRead_noSizeCheck(self, c) ==
    IF c.outNull
        THEN Return(c, "ParamNull")
        ELSE LET c1 == [ c EXCEPT !.num = 0 ] IN
             IF ~ self.read_enabled THEN Return(c1, "NoPerm")
             ELSE IF c.bufNull THEN Return(c1, "BufferNull")
             ELSE IF self.vt.maj = 1
                 THEN Invoke(c1, "read", c.pos, c.size, "none")
                 ELSE Return(c1, "BadVersion")

KFileRead(self, c) ==
    IF c.outNull
        THEN Return(c, "ParamNull")
        ELSE LET c1 == [ c EXCEPT !.num = 0 ] IN
             IF ~ self.read_enabled THEN Return(c1, "NoPerm")
             ELSE IF c.bufNull THEN Return(c1, "BufferNull")
             ELSE IF c.size = 0 THEN Return(c1, "BufferInsufficient")
             ELSE IF self.vt.maj = 1
                 THEN Invoke(c1, "read", c.pos, c.size, "none")
                 ELSE Return(c1, "BadVersion")

\* a variant that silently downgrades a real timeout to a plain read
KFileTimedRead_downgrade(self, c) ==
    IF c.outNull
        THEN Return(c, "ParamNull")
        ELSE LET c1 == [ c EXCEPT !.num = 0 ] IN
             IF ~ self.read_enabled THEN Return(c1, "NoPerm")
             ELSE IF c.bufNull THEN Return(c1, "BufferNull")
             ELSE IF c.size = 0 THEN Return(c1, "BufferInsufficient")
             ELSE IF self.vt.maj = 1
                 THEN IF self.vt.min >= 2
                          THEN Invoke(c1, "timed_read", c.pos, c.size, c.tm)
                          ELSE Invoke(c1, "read", c.pos, c.size, "none")
                 ELSE Return(c1, "BadVersion")

KFileTimedRead(self, c) ==
    IF c.outNull
        THEN Return(c, "ParamNull")
        ELSE LET c1 == [ c EXCEPT !.num = 0 ] IN
             IF ~ self.read_enabled THEN Return(c1, "NoPerm")
             ELSE IF c.bufNull THEN Return(c1, "BufferNull")
             ELSE IF c.size = 0 THEN Return(c1, "BufferInsufficient")
             ELSE IF self.vt.maj = 1
                 THEN IF self.vt.min >= 2
                          THEN Invoke(c1, "timed_read", c.pos, c.size, c.tm)
                      ELSE IF c.tm = "null"
                          THEN Invoke(c1, "read", c.pos, c.size, "none")
                      ELSE Return(c1, "BadVersion")
                 ELSE Return(c1, "BadVersion")

(***************************************************************************)
(* ReadAll, TimedReadAll.                                                  *)
(***************************************************************************)

\* a variant that lets the last backend error through whatever was read
KFileReadAll_finish_strict(c, rc, total) ==
    IF rc # "OK"
        THEN [ Return(c, rc) EXCEPT !.total = total ]
        ELSE [ Return(c, "OK") EXCEPT !.num = total, !.total = total ]

\* the code after the switch: any bytes at all make the call a success
KFileReadAll_finish(c, rc, total) ==
    IF total # 0
        THEN [ Return(c, "OK") EXCEPT !.num = total, !.total = total ]
        ELSE [ Return(c, rc) EXCEPT !.total = total ]

\* a variant whose follow-up reads start at pos again instead of pos + total
KFileReadAll_next_samePos(self, c, total) ==
    IF total < c.size
        THEN IF self.vt.min >= 2
                 THEN Invoke([ c EXCEPT !.total = total, !.phase = "loop" ],
                             "timed_read", c.pos, c.size - total, "noblock")
                 ELSE Invoke([ c EXCEPT !.total = total, !.phase = "loop" ],
                             "read", c.pos, c.size - total, "none")
        ELSE KFileReadAll_finish(c, "OK", total)

\* the head of the follow-up for-loop: "total < bsize", then the next read
KFileReadAll_next(self, c, total) ==
    IF total < c.size
        THEN IF self.vt.min >= 2
                 THEN Invoke([ c EXCEPT !.total = total, !.phase = "loop" ],
                             "timed_read", c.pos + total, c.size - total, "noblock")
                 ELSE Invoke([ c EXCEPT !.total = total, !.phase = "loop" ],
                             "read", c.pos + total, c.size - total, "none")
        ELSE KFileReadAll_finish(c, "OK", total)

\* a variant without the read_enabled check
KFileReadAll_ungated(self, c) ==
    IF c.outNull
        THEN Return(c, "ParamNull")
        ELSE LET c1 == [ c EXCEPT !.num = 0 ] IN
             IF c.bufNull THEN Return(c1, "BufferNull")
             ELSE IF c.size = 0 THEN Return(c1, "BufferInsufficient")
             ELSE IF self.vt.maj = 1
                 THEN Invoke([ c1 EXCEPT !.phase = "first" ], "read", c.pos, c.size, "none")
                 ELSE Return(c1, "BadVersion")

KFileReadAll(self, c) ==
    IF c.outNull
        THEN Return(c, "ParamNull")
        ELSE LET c1 == [ c EXCEPT !.num = 0 ] IN
             IF ~ self.read_enabled THEN Return(c1, "NoPerm")
             ELSE IF c.bufNull THEN Return(c1, "BufferNull")
             ELSE IF c.size = 0 THEN Return(c1, "BufferInsufficient")
             ELSE IF self.vt.maj = 1
                 THEN Invoke([ c1 EXCEPT !.phase = "first" ], "read", c.pos, c.size, "none")
                 ELSE Return(c1, "BadVersion")

KFileReadAll_resume(self, c, r) ==
    IF c.phase = "first"
        THEN \* total = count, whatever rc is
             IF r.rc = "OK" /\ r.count # 0 /\ r.count < c.size
                 THEN KFileReadAll_next(self, c, r.count)
                 ELSE KFileReadAll_finish(c, r.rc, r.count)
        ELSE IF r.rc # "OK" THEN KFileReadAll_finish(c, r.rc, c.total)
             ELSE IF r.count = 0 THEN KFileReadAll_finish(c, r.rc, c.total)
             ELSE KFileReadAll_next(self, c, c.total + r.count)

\* the follow-up loop of the minor >= 2 branch
KFileTimedReadAll_next2(c, total) ==
    IF total < c.size
        THEN Invoke([ c EXCEPT !.total = total, !.phase = "loop" ],
                    "timed_read", c.pos + total, c.size - total, "noblock")
        ELSE KFileReadAll_finish(c, "OK", total)

\* the loop of the minor < 2, tm == NULL branch
KFileTimedReadAll_next0(c, total) ==
    IF total < c.size
        THEN Invoke([ c EXCEPT !.total = total, !.phase = "loop" ],
                    "read", c.pos + total, c.size - total, "none")
        ELSE KFileReadAll_finish(c, "OK", total)

KFileTimedReadAll(self, c) ==
    IF c.outNull
        THEN Return(c, "ParamNull")
        ELSE LET c1 == [ c EXCEPT !.num = 0 ] IN
             IF ~ self.read_enabled THEN Return(c1, "NoPerm")
             ELSE IF c.bufNull THEN Return(c1, "BufferNull")
             ELSE IF c.size = 0 THEN Return(c1, "BufferInsufficient")
             ELSE IF self.vt.maj = 1
                 THEN IF self.vt.min >= 2
                          THEN Invoke([ c1 EXCEPT !.phase = "first" ],
                                      "timed_read", c.pos, c.size, c.tm)
                      ELSE IF c.tm = "null"
                          THEN KFileTimedReadAll_next0(c1, 0)
                      ELSE Return(c1, "BadVersion")
                 ELSE Return(c1, "BadVersion")

KFileTimedReadAll_resume(self, c, r) ==
    IF self.vt.min >= 2
        THEN IF c.phase = "first"
                 THEN IF r.rc = "OK" /\ r.count # 0 /\ r.count < c.size
                          THEN KFileTimedReadAll_next2(c, r.count)
                          ELSE KFileReadAll_finish(c, r.rc, r.count)
                 ELSE IF r.rc # "OK" THEN KFileReadAll_finish(c, r.rc, c.total)
                      ELSE IF r.count = 0 THEN KFileReadAll_finish(c, r.rc, c.total)
                      ELSE KFileTimedReadAll_next2(c, c.total + r.count)
        ELSE IF r.rc # "OK" THEN KFileReadAll_finish(c, r.rc, c.total)
             ELSE IF r.count = 0 THEN KFileReadAll_finish(c, r.rc, c.total)
             ELSE KFileTimedReadAll_next0(c, c.total + r.count)


(***************************************************************************)
(* ReadExactly, TimedReadExactly.                                          *)
(***************************************************************************)

\* the for-loop's step "total += count" and test "total < bytes" with the next
\* call of fn, or the function's "return rc" once the test fails
KFileReadExactly_next(c, rc, total, fn, tm) ==
    IF total < c.size
        THEN Invoke([ c EXCEPT !.total = total ], fn, c.pos + total, c.size - total, tm)
        ELSE [ Return(c, rc) EXCEPT !.total = total ]

\* a variant of the loop body that takes a zero-byte read for the end of the
\* transfer, as the All loops do
KFileReadExactly_body_zeroIsEnd(c, r, fn, tm, strict) ==
    IF r.rc # "OK"
        THEN IF strict \/ ~ IsTimeout(r.rc)
                 THEN Return(c, r.rc)
                 ELSE KFileReadExactly_next(c, r.rc, c.total + r.count, fn, tm)
        ELSE IF r.count = 0
                 THEN Return(c, "OK")
                 ELSE KFileReadExactly_next(c, r.rc, c.total + r.count, fn, tm)

\* a variant of the loop body in which a successful zero-byte read goes round
\* again too
KFileReadExactly_body_zeroRetried(c, r, fn, tm, strict) ==
    IF r.rc # "OK"
        THEN IF strict \/ ~ IsTimeout(r.rc)
                 THEN Return(c, r.rc)
                 ELSE KFileReadExactly_next(c, r.rc, c.total + r.count, fn, tm)
        ELSE KFileReadExactly_next(c, r.rc, c.total + r.count, fn, tm)

\* one pass through the loop body after the backend answered r; strict says that
\* every error ends the loop (tm != NULL), otherwise Timeout/Exhausted goes round again
KFileReadExactly_body(c, r, fn, tm, strict) ==
    IF r.rc # "OK"
        THEN IF strict \/ ~ IsTimeout(r.rc)
                 THEN Return(c, r.rc)
                 ELSE KFileReadExactly_next(c, r.rc, c.total + r.count, fn, tm)
        ELSE IF r.count = 0
                 THEN Return(c, "Incomplete")
                 ELSE KFileReadExactly_next(c, r.rc, c.total + r.count, fn, tm)

\* a variant without the version switch
KFileReadExactly_anyMajor(self, c) ==
    IF ~ self.read_enabled THEN Return(c, "NoPerm")
    ELSE IF c.size = 0 THEN Return(c, "OK")
    ELSE IF c.bufNull THEN Return(c, "BufferNull")
    ELSE KFileReadExactly_next(c, "OK", 0, "read", "none")

KFileReadExactly(self, c) ==
    IF ~ self.read_enabled THEN Return(c, "NoPerm")
    ELSE IF c.size = 0 THEN Return(c, "OK")
    ELSE IF c.bufNull THEN Return(c, "BufferNull")
    ELSE IF self.vt.maj = 1
        THEN KFileReadExactly_next(c, "OK", 0, "read", "none")
        ELSE Return(c, "BadVersion")

\* a variant in which every backend error, Timeout included, ends the loop
KFileReadExactly_resume_strict(self, c, r) ==
    KFileReadExactly_body(c, r, "read", "none", TRUE)

KFileReadExactly_resume(self, c, r) ==
    KFileReadExactly_body(c, r, "read", "none", FALSE)

KFileTimedReadExactly(self, c) ==
    IF ~ self.read_enabled THEN Return(c, "NoPerm")
    ELSE IF c.size = 0 THEN Return(c, "OK")
    ELSE IF c.bufNull THEN Return(c, "BufferNull")
    ELSE IF self.vt.maj = 1
        THEN IF self.vt.min >= 2
                 THEN KFileReadExactly_next(c, "OK", 0, "timed_read", c.tm)
             ELSE IF c.tm = "null"
                 THEN KFileReadExactly_next(c, "OK", 0, "read", "none")
             ELSE Return(c, "BadVersion")
        ELSE Return(c, "BadVersion")

\* a variant that goes round again on Timeout even when the caller gave a timeout
KFileTimedReadExactly_resume_retry(self, c, r) ==
    IF self.vt.min >= 2
        THEN KFileReadExactly_body(c, r, "timed_read", c.tm, FALSE)
        ELSE KFileReadExactly_body(c, r, "read", "none", FALSE)

KFileTimedReadExactly_resume(self, c, r) ==
    IF self.vt.min >= 2
        THEN KFileReadExactly_body(c, r, "timed_read", c.tm, c.tm # "null")
        ELSE KFileReadExactly_body(c, r, "read", "none", FALSE)

(***************************************************************************)
(* Write, TimedWrite.  A NULL num_writ is pointed at a local: num is what *)
(* the function wrote through the pointer either way.                     *)
(***************************************************************************)

\* a variant that looks at the buffer before the size
KFileWrite_bufferFirst(self, c) ==
    LET c1 == [ c EXCEPT !.num = 0 ] IN
    IF ~ self.write_enabled THEN Return(c1, "NoPerm")
    ELSE IF c.bufNull THEN Return(c1, "BufferNull")
    ELSE IF c.size = 0 THEN Return(c1, "OK")
    ELSE IF self.vt.maj = 1
        THEN Invoke(c1, "write", c.pos, c.size, "none")
        ELSE Return(c1, "BadVersion")

KFileWrite(self, c) ==
    LET c1 == [ c EXCEPT !.num = 0 ] IN
    IF ~ self.write_enabled THEN Return(c1, "NoPerm")
    ELSE IF c.size = 0 THEN Return(c1, "OK")
    ELSE IF c.bufNull THEN Return(c1, "BufferNull")
    ELSE IF self.vt.maj = 1
        THEN Invoke(c1, "write", c.pos, c.size, "none")
        ELSE Return(c1, "BadVersion")

KFileTimedWrite(self, c) ==
    LET c1 == [ c EXCEPT !.num = 0 ] IN
    IF ~ self.write_enabled THEN Return(c1, "NoPerm")
    ELSE IF c.size = 0 THEN Return(c1, "OK")
    ELSE IF c.bufNull THEN Return(c1, "BufferNull")
    ELSE IF self.vt.maj = 1
        THEN IF self.vt.min >= 2
                 THEN Invoke(c1, "timed_write", c.pos, c.size, c.tm)
             ELSE IF c.tm = "null"
                 THEN Invoke(c1, "write", c.pos, c.size, "none")
             ELSE Return(c1, "BadVersion")
        ELSE Return(c1, "BadVersion")

(***************************************************************************)
(* WriteAll, TimedWriteAll.                                                *)
(***************************************************************************)

\* a variant with KFileReadAll's ending: any progress is a success
KFileWriteAll_finish_lenient(c, rc, total) ==
    LET c1 == [ c EXCEPT !.num = total, !.total = total ] IN
    IF total # 0 THEN Return(c1, "OK") ELSE Return(c1, rc)

\* a variant that does not synthesize Incomplete-Transfer
KFileWriteAll_finish_noIncomplete(c, rc, total) ==
    LET c1 == [ c EXCEPT !.num = total, !.total = total ] IN
    IF total = c.size THEN Return(c1, "OK") ELSE Return(c1, rc)

\* the code after the switch: success is "total == size"
KFileWriteAll_finish(c, rc, total) ==
    LET c1 == [ c EXCEPT !.num = total, !.total = total ] IN
    IF total = c.size THEN Return(c1, "OK")
    ELSE IF rc = "OK" THEN Return(c1, "Incomplete")
    ELSE Return(c1, rc)

\* a variant whose follow-up writes ask for the whole size again
KFileWriteAll_next_wholeSize(self, c, total) ==
    IF total < c.size
        THEN IF self.vt.min >= 2
                 THEN Invoke([ c EXCEPT !.total = total, !.phase = "loop" ],
                             "timed_write", c.pos + total, c.size, "noblock")
                 ELSE Invoke([ c EXCEPT !.total = total, !.phase = "loop" ],
                             "write", c.pos + total, c.size, "none")
        ELSE KFileWriteAll_finish(c, "OK", total)

\* the head of the follow-up for-loop: "total < size", then the next write
KFileWriteAll_next(self, c, total) ==
    IF total < c.size
        THEN IF self.vt.min >= 2
                 THEN Invoke([ c EXCEPT !.total = total, !.phase = "loop" ],
                             "timed_write", c.pos + total, c.size - total, "noblock")
                 ELSE Invoke([ c EXCEPT !.total = total, !.phase = "loop" ],
                             "write", c.pos + total, c.size - total, "none")
        ELSE KFileWriteAll_finish(c, "OK", total)

KFileWriteAll(self, c) ==
    LET c1 == [ c EXCEPT !.num = 0 ] IN
    IF ~ self.write_enabled THEN Return(c1, "NoPerm")
    ELSE IF c.size = 0 THEN Return(c1, "OK")
    ELSE IF c.bufNull THEN Return(c1, "BufferNull")
    ELSE IF self.vt.maj = 1
        THEN Invoke([ c1 EXCEPT !.phase = "first" ], "write", c.pos, c.size, "none")
        ELSE Return(c1, "BadVersion")

KFileWriteAll_resume(self, c, r) ==
    IF c.phase = "first"
        THEN IF r.rc = "OK" /\ r.count # 0 /\ r.count < c.size
                 THEN KFileWriteAll_next(self, c, r.count)
                 ELSE KFileWriteAll_finish(c, r.rc, r.count)
        ELSE IF r.rc # "OK" THEN KFileWriteAll_finish(c, r.rc, c.total)
             ELSE IF r.count = 0 THEN KFileWriteAll_finish(c, r.rc, c.total)
             ELSE KFileWriteAll_next(self, c, c.total + r.count)

\* the head of either for-loop of KFileTimedWriteAll: every pass calls fn with tm
KFileTimedWriteAll_next(c, total, fn, tm) ==
    IF total < c.size
        THEN Invoke([ c EXCEPT !.total = total, !.phase = "loop" ],
                    fn, c.pos + total, c.size - total, tm)
        ELSE KFileWriteAll_finish(c, "OK", total)

KFileTimedWriteAll(self, c) ==
    LET c1 == [ c EXCEPT !.num = 0 ] IN
    IF ~ self.write_enabled THEN Return(c1, "NoPerm")
    ELSE IF c.size = 0 THEN Return(c1, "OK")
    ELSE IF c.bufNull THEN Return(c1, "BufferNull")
    ELSE IF self.vt.maj = 1
        THEN IF self.vt.min >= 2
                 THEN KFileTimedWriteAll_next(c1, 0, "timed_write", c.tm)
             ELSE IF c.tm = "null"
                 THEN KFileTimedWriteAll_next(c1, 0, "write", "none")
             ELSE Return(c1, "BadVersion")
        ELSE Return(c1, "BadVersion")

\* [variant] after the first pass the loop calls with a zero timeout
KFileTimedWriteAll_resume_noblock(self, c, r) ==
    IF r.rc # "OK" THEN KFileWriteAll_finish(c, r.rc, c.total)
    ELSE IF r.count = 0 THEN KFileWriteAll_finish(c, r.rc, c.total)
    ELSE IF self.vt.min >= 2
        THEN KFileTimedWriteAll_next(c, c.total + r.count, "timed_write", "noblock")
        ELSE KFileTimedWriteAll_next(c, c.total + r.count, "write", "none")

KFileTimedWriteAll_resume(self, c, r) ==
    IF r.rc # "OK" THEN KFileWriteAll_finish(c, r.rc, c.total)
    ELSE IF r.count = 0 THEN KFileWriteAll_finish(c, r.rc, c.total)
    ELSE IF self.vt.min >= 2
        THEN KFileTimedWriteAll_next(c, c.total + r.count, "timed_write", c.tm)
        ELSE KFileTimedWriteAll_next(c, c.total + r.count, "write", "none")

(***************************************************************************)
(* The contract's entry points, by name.                                   *)
(***************************************************************************)

Entry(self, c) ==
    CASE c.op = "Destroy"          -> KFileDestroy(self, c)
      [] c.op = "RandomAccess"     -> KFileRandomAccess(self, c)
      [] c.op = "Size"             -> KFileSize(self, c)
      [] c.op = "SetSize"          -> KFileSetSize(self, c)
      [] c.op = "GetSysFile"       -> KFileGetSysFile(self, c)
      [] c.op = "Type"             -> KFileType(self, c)
      [] c.op = "Read"             -> KFileRead(self, c)
      [] c.op = "TimedRead"        -> KFileTimedRead(self, c)
      [] c.op = "ReadAll"          -> KFileReadAll(self, c)
      [] c.op = "TimedReadAll"     -> KFileTimedReadAll(self, c)
      [] c.op = "ReadExactly"      -> KFileReadExactly(self, c)
      [] c.op = "TimedReadExactly" -> KFileTimedReadExactly(self, c)
      [] c.op = "Write"            -> KFileWrite(self, c)
      [] c.op = "TimedWrite"       -> KFileTimedWrite(self, c)
      [] c.op = "WriteAll"         -> KFileWriteAll(self, c)
      [] c.op = "TimedWriteAll"    -> KFileTimedWriteAll(self, c)

Resume(self, c, r) ==
    CASE c.op = "ReadAll"          -> KFileReadAll_resume(self, c, r)
      [] c.op = "TimedReadAll"     -> KFileTimedReadAll_resume(self, c, r)
      [] c.op = "ReadExactly"      -> KFileReadExactly_resume(self, c, r)
      [] c.op = "TimedReadExactly" -> KFileTimedReadExactly_resume(self, c, r)
      [] c.op = "WriteAll"         -> KFileWriteAll_resume(self, c, r)
      [] c.op = "TimedWriteAll"    -> KFileTimedWriteAll_resume(self, c, r)
      [] OTHER                     -> ReturnBackend(c, r)


(***************************************************************************)
(* Construction.  A dispatch table has a version (maj, min) and function  *)
(* pointers; fns is the set of its functions that are not NULL.  KFileInit *)
(* checks the version, and in a _DEBUGGING build the presence of the      *)
(* functions the minor version requires.                                  *)
(***************************************************************************)

NoDir == "NULL"

\* the functions of every table of major 1, and those added by minor 1 and minor 2
BaseFns == { "destroy", "get_sysfile", "random_access", "get_size", "set_size",
             "read", "write" }
TableFns == BaseFns \cup { "get_type", "timed_read", "timed_write" }

\* the functions a table of the given minor version must have
Required(min) ==
    BaseFns \cup ( IF min >= 1 THEN { "get_type" } ELSE { } )
            \cup ( IF min >= 2 THEN { "timed_read", "timed_write" } ELSE { } )

\* a table of the given version with every function its version calls for
FullTable(maj, min) == [ maj |-> maj, min |-> min, fns |-> Required(min) ]

Blank == [ vt |-> [ maj |-> 0, min |-> 0, fns |-> { } ], dir |-> NoDir, refcount |-> 0,
           read_enabled |-> FALSE, write_enabled |-> FALSE ]

\* KRefcountInit ( & self -> refcount, 1, ... )
KRefcountInit(value) == value

\* the assignments at the end of KFileInit
KFileInit_assign(self, vt, read_enabled, write_enabled) ==
    [ vt |-> vt, dir |-> NoDir, refcount |-> KRefcountInit(1),
      read_enabled |-> read_enabled, write_enabled |-> write_enabled ]

\* the checks of "case 2:", "case 1:" and "case 0:" of the minor version switch,
\* which fall through from one to the next and are compiled only #if _DEBUGGING
KFileInit_checks(vt) ==
    IF vt.min = 2 /\ debugging /\ ~ ( { "timed_write", "timed_read" } \subseteq vt.fns )
        THEN "InterfaceNull"
    ELSE IF vt.min \in { 1, 2 } /\ debugging /\ "get_type" \notin vt.fns
        THEN "InterfaceNull"
    ELSE IF debugging /\ ~ ( BaseFns \subseteq vt.fns )
        THEN "InterfaceNull"
    ELSE "OK"

\* a variant that fills in the object before it looks at the table
KFileInit_assignFirst(self, vt, read_enabled, write_enabled) ==
    LET s1 == KFileInit_assign(self, vt, read_enabled, write_enabled) IN
    IF vt.maj = 0
        THEN [ rc |-> "InterfaceInvalid", self |-> s1 ]
    ELSE IF vt.maj = 1
        THEN IF vt.min \in { 0, 1, 2 }
                 THEN [ rc |-> KFileInit_checks(vt), self |-> s1 ]
                 ELSE [ rc |-> "BadVersion", self |-> s1 ]
    ELSE [ rc |-> "BadVersion", self |-> s1 ]

\* a variant whose minor version switch has no default case
KFileInit_anyMinor(self, vt, read_enabled, write_enabled) ==
    IF vt.maj = 0
        THEN [ rc |-> "InterfaceInvalid", self |-> self ]
    ELSE IF vt.maj = 1
        THEN IF KFileInit_checks(vt) # "OK"
                 THEN [ rc |-> KFileInit_checks(vt), self |-> self ]
                 ELSE [ rc |-> "OK",
                        self |-> KFileInit_assign(self, vt, read_enabled, write_enabled) ]
    ELSE [ rc |-> "BadVersion", self |-> self ]

\* KFileInit on a non-NULL self and a non-NULL vt: the result and the object after it
KFileInit(self, vt, read_enabled, write_enabled) ==
    IF vt.maj = 0
        THEN [ rc |-> "InterfaceInvalid", self |-> self ]
    ELSE IF vt.maj = 1
        THEN IF vt.min \in { 0, 1, 2 }
                 THEN IF KFileInit_checks(vt) # "OK"
                          THEN [ rc |-> KFileInit_checks(vt), self |-> self ]
                          ELSE [ rc |-> "OK",
                                 self |-> KFileInit_assign(self, vt, read_enabled,
                                                           write_enabled) ]
                 ELSE [ rc |-> "BadVersion", self |-> self ]
    ELSE [ rc |-> "BadVersion", self |-> self ]

\* the tables a constructor of a working backend hands to KFileInit: every version,
\* each with the functions of its minor version
Tables == { FullTable(m, n) : m \in Majors, n \in 0 .. 3 }

\* tables of objects whose constructor filled in the structure without KFileInit:
\* the major versions the call-time switches reject
RawTables == { FullTable(m, n) : m \in Majors \ { 1 }, n \in { 0, 2 } }

\* the record of a KFileInit call
InitRecord(before, vt, read_enabled, write_enabled, rc) ==
    [ called |-> TRUE, before |-> before, vt |-> vt, read_enabled |-> read_enabled,
      write_enabled |-> write_enabled, rc |-> rc ]

NoInit == [ InitRecord(Blank, Blank.vt, FALSE, FALSE, "OK") EXCEPT !.called = FALSE ]

(***************************************************************************)
(* The backend: what a function of the dispatch table may answer.  A      *)
(* transfer function answers OK with a count of at most the length it was *)
(* given, or an error; it writes its count only on success (the caller    *)
(* zeroed it before the call), so an error comes with a count of 0.       *)
(***************************************************************************)

Answer(rc, count) == [ rc |-> rc, count |-> count ]

NTimeouts(t) == Cardinality({ i \in 1 .. Len(t) : t[i].rc = "Timeout" })

Responses(req, t) ==
    IF req.fn \in TransferFns
        THEN { Answer("OK", k) : k \in 0 .. req.len }
             \cup { Answer("IOErr", 0) }
             \cup ( IF NTimeouts(t) < MaxTimeouts THEN { Answer("Timeout", 0) } ELSE { } )
    ELSE IF req.fn = "get_size"
        THEN { Answer("OK", k) : k \in 0 .. MaxSize } \cup { Answer("IOErr", 0) }
    ELSE IF req.fn = "get_sysfile"
        THEN { Answer("sysfile", k) : k \in 0 .. MaxPos } \cup { Answer("NULL", 0) }
    ELSE IF req.fn = "get_type"
        THEN { Answer("kfdFile", 0), Answer("kfdSocket", 0) }
    ELSE { Answer("OK", 0), Answer("IOErr", 0) }

Logged(req, r) ==
    [ fn |-> req.fn, off |-> req.off, len |-> req.len, tm |-> req.tm,
      rc |-> r.rc, count |-> r.count ]

(***************************************************************************)
(* The arguments a caller may pass to each operation.                      *)
(***************************************************************************)

HasBuffer(op) == op \in ReadOps \cup WriteOps
HasOut(op) == op \in ( ReadOps \ { "ReadExactly", "TimedReadExactly" } ) \cup WriteOps \cup { "Size" }

Positions(op) == IF HasBuffer(op) THEN 0 .. MaxPos ELSE { 0 }
Sizes(op) == IF HasBuffer(op) \/ op = "SetSize" THEN 0 .. MaxSize ELSE { 0 }
BufNulls(op) == IF HasBuffer(op) THEN BOOLEAN ELSE { FALSE }
OutNulls(op) == IF HasOut(op) THEN BOOLEAN ELSE { FALSE }
Timeouts(op) == IF op \in TimedOps THEN { "null", "caller" } ELSE { "null" }

\* the payload of a write whose content does not matter
Filler(n) == [ i \in 1 .. n |-> 1 ]

(***************************************************************************)
(* Actions.                                                                *)
(***************************************************************************)

NoWrite == [ valid |-> FALSE, pos |-> 0, size |-> 0, data |-> << >>, rc |-> "OK" ]

Threads == 1 .. NThreads

NoWhack == [ by |-> 0, from |-> 0, others |-> 0 ]

\* "conn -> fd = -1": the object has no descriptor
NoFd == 0 - 1

\* the memory of a KSocket as calloc returns it, with fd set to -1
NoSock == [ fd |-> NoFd, path |-> "NULL", type |-> 0, read_timeout |-> 0, write_timeout |-> 0 ]

\* "tm == NULL": the call waits without a bound
NullTm == [ null |-> TRUE, mS |-> 0 ]

\* a count the function did not write
NoNum == 0 - 1

\* what socket_wait returned: a negative value or the bits of revents, and errno
NoEvent == [ neg |-> FALSE, revents |-> { }, errno |-> "0" ]

\* the values of the endpoint types: the alternatives of an endpoint in the
\* order the endpoint is described, and a value that is neither
epIPV4 == 0
epIPC == 1
epOther == 2

\* no endpoint type given
NoKind == 0 - 1

NoSop == [ name |-> "none", on |-> "client", pc |-> "idle", rc |-> "OK", kind |-> NoKind,
           from |-> FALSE, retryTimeout |-> 0, retry_count |-> 0, path |-> "",
           bsize |-> 0, data |-> << >>, tm |-> NullTm, num |-> NoNum, ev |-> NoEvent ]

\* the listener and the accepted stream before they are made
NoObjs == [ o \in { "listener", "server" } |->
              [ alive |-> FALSE, fd |-> NoFd, path |-> "NULL", type |-> 0,
                read_timeout |-> 0, write_timeout |-> 0 ] ]

Init ==
    /\ alive = FALSE
    /\ inited = FALSE
    /\ kfile = Blank
    /\ call = Idle
    /\ trace = << >>
    /\ store = << >>
    /\ buffer = << >>
    /\ lastWrite = NoWrite
    /\ nAdd = 0
    /\ nRel = 0
    /\ addFailed = FALSE
    /\ addAfterRel = FALSE
    /\ teardowns = 0
    /\ whackRel = 0
    /\ debugging \in BOOLEAN
    /\ lastInit = NoInit
    /\ tcall = [ t \in Threads |-> Idle ]
    /\ held = [ t \in Threads |-> 0 ]
    /\ whack = NoWhack
    /\ sock = NoSock
    /\ salive = FALSE
    /\ fds = << >>
    /\ sop = NoSop
    /\ sys = << >>
    /\ misuse = FALSE
    /\ objs = NoObjs
    /\ fs = { }

\* a concrete constructor allocates the object and initialises it with KFileInit;
\* when KFileInit fails the constructor frees the object again
ConstructInit(vt, re, we) ==
    /\ ~ alive
    /\ call.pc = "idle"
    /\ LET r == KFileInit(Blank, vt, re, we) IN
        /\ r.rc = "OK"
        /\ kfile' = r.self
        /\ lastInit' = InitRecord(Blank, vt, re, we, r.rc)
    /\ alive' = TRUE
    /\ inited' = TRUE
    /\ nAdd' = 0 /\ nRel' = 0 /\ addFailed' = FALSE /\ addAfterRel' = FALSE
    /\ teardowns' = 0 /\ whackRel' = 0
    /\ UNCHANGED << call, trace, store, buffer, lastWrite, debugging, mtvars, sockvars >>

\* an object whose structure was filled in without KFileInit, with a table of a
\* major version this library does not know
ConstructRaw(vt, re, we) ==
    /\ ~ alive
    /\ call.pc = "idle"
    /\ kfile' = [ Blank EXCEPT !.vt = vt, !.refcount = 1,
                               !.read_enabled = re, !.write_enabled = we ]
    /\ alive' = TRUE
    /\ inited' = FALSE
    /\ lastInit' = NoInit
    /\ nAdd' = 0 /\ nRel' = 0 /\ addFailed' = FALSE /\ addAfterRel' = FALSE
    /\ teardowns' = 0 /\ whackRel' = 0
    /\ UNCHANGED << call, trace, store, buffer, lastWrite, debugging, mtvars, sockvars >>

\* the caller enters an operation of the contract
Call(op, pos, size, bufNull, outNull, tm) ==
    /\ alive
    /\ call.pc = "idle"
    /\ call' = Entry(kfile, NewCall(op, pos, size, bufNull, outNull, tm,
                                    IF op \in WriteOps THEN Filler(size) ELSE << >>))
    /\ trace' = << >>
    /\ UNCHANGED << alive, inited, kfile, store, buffer, lastWrite, refvars, initvars, mtvars, sockvars >>

\* the dispatch-table function the call is waiting in answers; a call through a
\* NULL function pointer does not return
BackendRespond ==
    /\ call.pc = "wait"
    /\ call.req.fn \in TableFns => call.req.fn \in kfile.vt.fns
    /\ \E r \in Responses(call.req, trace) :
        /\ call' = Resume(kfile, call, r)
        /\ trace' = Append(trace, Logged(call.req, r))
        /\ alive' = IF call.req.fn \in Teardowns /\ r.rc = "OK" THEN FALSE ELSE alive
    /\ UNCHANGED << inited, kfile, store, buffer, lastWrite, refvars, initvars, mtvars, sockvars >>

\* the operation returns to its caller
ReturnToCaller ==
    /\ call.pc = "done"
    /\ call' = Idle
    /\ trace' = << >>
    /\ UNCHANGED << alive, inited, kfile, store, buffer, lastWrite, refvars, initvars, mtvars, sockvars >>

Next ==
    \/ \E vt \in Tables, re \in BOOLEAN, we \in BOOLEAN : ConstructInit(vt, re, we)
    \/ \E vt \in RawTables, re \in BOOLEAN, we \in BOOLEAN : ConstructRaw(vt, re, we)
    \/ \E op \in AllOps : \E pos \in Positions(op), size \in Sizes(op),
          bufNull \in BufNulls(op), outNull \in OutNulls(op), tm \in Timeouts(op) :
            Call(op, pos, size, bufNull, outNull, tm)
    \/ BackendRespond
    \/ ReturnToCaller

Spec == Init /\ [][Next]_vars


(***************************************************************************)
(* Vocabulary of the properties.                                           *)
(***************************************************************************)

RECURSIVE SumCounts(_)
\* the bytes the backend reported transferred over the calls of a trace
SumCounts(t) == IF t = << >> THEN 0 ELSE t[1].count + SumCounts(Tail(t))

Last(t) == t[Len(t)]

Running == call.pc # "idle"
Done == call.pc = "done"
LoopRan == trace # << >>

ExactlyOps == { "ReadExactly", "TimedReadExactly" }
ReadAllOps == { "ReadAll", "TimedReadAll" }
WriteAllOps == { "WriteAll", "TimedWriteAll" }
CountedReads == ReadOps \ ExactlyOps

\* the capability an operation needs is switched off on the object
Gated ==
    \/ call.op \in ReadOps /\ ~ kfile.read_enabled
    \/ call.op \in WriteOps \cup { "SetSize" } /\ ~ kfile.write_enabled

\* what the argument checks that precede the version switch answer: "pass" when
\* the call gets as far as the switch
Precondition ==
    IF call.op \in CountedReads \cup { "Size" } /\ call.outNull THEN "ParamNull"
    ELSE IF Gated THEN "NoPerm"
    ELSE IF call.op \in WriteOps \cup ExactlyOps
        THEN IF call.size = 0 THEN "OK"
             ELSE IF call.bufNull THEN "BufferNull" ELSE "pass"
    ELSE IF call.op \in CountedReads
        THEN IF call.bufNull THEN "BufferNull"
             ELSE IF call.size = 0 THEN "BufferInsufficient" ELSE "pass"
    ELSE "pass"

(***************************************************************************)
(* Reference counting.  KRefcountAdd and KRefcountDrop are the counter's  *)
(* primitives; KFileAddRef and KFileRelease switch on their results.      *)
(***************************************************************************)

KRefcountAdd(count) ==
    IF count < 0 THEN [ res |-> "krefNegative", count |-> count ]
    ELSE IF count >= RefLimit THEN [ res |-> "krefLimit", count |-> count ]
    ELSE [ res |-> "krefOkay", count |-> count + 1 ]

KRefcountDrop(count) ==
    IF count <= 0 THEN [ res |-> "krefNegative", count |-> count ]
    ELSE IF count = 1 THEN [ res |-> "krefWhack", count |-> 0 ]
    ELSE [ res |-> "krefOkay", count |-> count - 1 ]

\* KFileAddRef: the object and the call after it
KFileAddRef(self, c) ==
    IF self = NULL
        THEN [ self |-> self, call |-> Return(c, "OK") ]
        ELSE LET a == KRefcountAdd(self.refcount) IN
             [ self |-> [ self EXCEPT !.refcount = a.count ],
               call |-> IF a.res = "krefLimit" THEN Return(c, "RangeExcessive")
                        ELSE IF a.res = "krefNegative" THEN Return(c, "SelfInvalid")
                        ELSE Return(c, "OK") ]

\* a variant that takes the object down on every Release of a live count
KFileRelease_eager(self, c) ==
    IF self = NULL
        THEN [ self |-> self, call |-> Return(c, "OK") ]
        ELSE LET d == KRefcountDrop(self.refcount)
                 s1 == [ self EXCEPT !.refcount = d.count ] IN
             IF d.res = "krefNegative"
                 THEN [ self |-> s1, call |-> Return(c, "RangeExcessive") ]
                 ELSE [ self |-> s1, call |-> KFileDestroy(s1, c) ]

\* a variant that takes the object down one reference too early
KFileRelease_early(self, c) ==
    IF self = NULL
        THEN [ self |-> self, call |-> Return(c, "OK") ]
        ELSE LET d == KRefcountDrop(self.refcount)
                 s1 == [ self EXCEPT !.refcount = d.count ] IN
             IF d.res = "krefNegative"
                 THEN [ self |-> s1, call |-> Return(c, "RangeExcessive") ]
             ELSE IF d.count <= 1
                 THEN IF self.dir # NoDir
                          THEN [ self |-> s1,
                                 call |-> Invoke(c, "KDirectoryDestroyFile", 0, 0, "none") ]
                          ELSE [ self |-> s1, call |-> KFileDestroy(s1, c) ]
             ELSE [ self |-> s1, call |-> Return(c, "OK") ]

\* a variant that takes a drop below zero for an ordinary one
KFileRelease_noRange(self, c) ==
    IF self = NULL
        THEN [ self |-> self, call |-> Return(c, "OK") ]
        ELSE LET d == KRefcountDrop(self.refcount)
                 s1 == [ self EXCEPT !.refcount = d.count ] IN
             IF d.res = "krefWhack"
                 THEN IF self.dir # NoDir
                          THEN [ self |-> s1,
                                 call |-> Invoke(c, "KDirectoryDestroyFile", 0, 0, "none") ]
                          ELSE [ self |-> s1, call |-> KFileDestroy(s1, c) ]
             ELSE [ self |-> s1, call |-> Return(c, "OK") ]

\* a variant that always goes to the object's own destroy
KFileRelease_ownDestroy(self, c) ==
    IF self = NULL
        THEN [ self |-> self, call |-> Return(c, "OK") ]
        ELSE LET d == KRefcountDrop(self.refcount)
                 s1 == [ self EXCEPT !.refcount = d.count ] IN
             IF d.res = "krefWhack"
                 THEN [ self |-> s1, call |-> KFileDestroy(s1, c) ]
             ELSE IF d.res = "krefNegative"
                 THEN [ self |-> s1, call |-> Return(c, "RangeExcessive") ]
             ELSE [ self |-> s1, call |-> Return(c, "OK") ]

\* a variant that makes the object read-only once a reference was dropped
KFileRelease_readOnly(self, c) ==
    IF self = NULL
        THEN [ self |-> self, call |-> Return(c, "OK") ]
        ELSE LET d == KRefcountDrop(self.refcount)
                 s1 == [ self EXCEPT !.refcount = d.count, !.write_enabled = FALSE ] IN
             IF d.res = "krefWhack"
                 THEN IF self.dir # NoDir
                          THEN [ self |-> s1,
                                 call |-> Invoke(c, "KDirectoryDestroyFile", 0, 0, "none") ]
                          ELSE [ self |-> s1, call |-> KFileDestroy(s1, c) ]
             ELSE IF d.res = "krefNegative"
                 THEN [ self |-> s1, call |-> Return(c, "RangeExcessive") ]
             ELSE [ self |-> s1, call |-> Return(c, "OK") ]

\* KFileRelease: the object and the call after it; the call waits in a teardown
\* routine when the count dropped to zero
KFileRelease(self, c) ==
    IF self = NULL
        THEN [ self |-> self, call |-> Return(c, "OK") ]
        ELSE LET d == KRefcountDrop(self.refcount)
                 s1 == [ self EXCEPT !.refcount = d.count ] IN
             IF d.res = "krefWhack"
                 THEN IF self.dir # NoDir
                          THEN [ self |-> s1,
                                 call |-> Invoke(c, "KDirectoryDestroyFile", 0, 0, "none") ]
                          ELSE [ self |-> s1, call |-> KFileDestroy(s1, c) ]
             ELSE IF d.res = "krefNegative"
                 THEN [ self |-> s1, call |-> Return(c, "RangeExcessive") ]
             ELSE [ self |-> s1, call |-> Return(c, "OK") ]

\* the teardown routine was entered by this Release: KDirectoryDestroyFile, or
\* KFileDestroy (which calls the destroy hook or refuses the version)
EntersTeardown(self, c1) ==
    \/ c1.pc = "wait" /\ c1.req.fn \in Teardowns
    \/ c1.pc = "done" /\ c1.rc = "BadVersion"

\* the directory that created the file registers itself as its owner
Attach ==
    /\ alive
    /\ call.pc = "idle"
    /\ kfile.dir = NoDir
    /\ nAdd = 0 /\ nRel = 0
    /\ kfile' = [ kfile EXCEPT !.dir = "dir" ]
    /\ UNCHANGED << alive, inited, call, trace, store, buffer, lastWrite, refvars, initvars, mtvars, sockvars >>

\* a call on the NULL handle, or on the object
CallOn(null, op) ==
    [ NewCall(op, 0, 0, FALSE, FALSE, "null", << >>) EXCEPT !.selfNull = null ]

\* a KFileAddRef on the NULL handle
AddRefNull ==
    /\ alive
    /\ call.pc = "idle"
    /\ call' = KFileAddRef(NULL, CallOn(TRUE, "AddRef")).call
    /\ trace' = << >>
    /\ UNCHANGED << alive, inited, kfile, store, buffer, lastWrite, refvars, initvars, mtvars, sockvars >>

\* a KFileRelease on the NULL handle
ReleaseNull ==
    /\ alive
    /\ call.pc = "idle"
    /\ call' = KFileRelease(NULL, CallOn(TRUE, "Release")).call
    /\ trace' = << >>
    /\ UNCHANGED << alive, inited, kfile, store, buffer, lastWrite, refvars, initvars, mtvars, sockvars >>

AddRef ==
    /\ alive
    /\ call.pc = "idle"
    /\ nAdd < MaxRefOps
    /\ LET r == KFileAddRef(kfile, NewCall("AddRef", 0, 0, FALSE, FALSE, "null", << >>)) IN
        /\ kfile' = r.self
        /\ call' = r.call
        /\ nAdd' = IF r.call.rc = "OK" THEN nAdd + 1 ELSE nAdd
        /\ addFailed' = ( addFailed \/ r.call.rc # "OK" )
    /\ addAfterRel' = ( addAfterRel \/ nRel > 0 )
    /\ trace' = << >>
    /\ UNCHANGED << alive, inited, store, buffer, lastWrite, nRel, teardowns, whackRel, initvars, mtvars, sockvars >>

Release ==
    /\ alive
    /\ call.pc = "idle"
    /\ nRel < MaxRefOps + 1
    /\ LET r == KFileRelease(kfile, NewCall("Release", 0, 0, FALSE, FALSE, "null", << >>)) IN
        /\ kfile' = r.self
        /\ call' = r.call
        /\ teardowns' = IF EntersTeardown(r.self, r.call) THEN teardowns + 1 ELSE teardowns
        /\ whackRel' = IF EntersTeardown(r.self, r.call) THEN nRel + 1 ELSE whackRel
    /\ nRel' = nRel + 1
    /\ trace' = << >>
    /\ UNCHANGED << alive, inited, store, buffer, lastWrite, nAdd, addFailed, addAfterRel,
                    initvars, mtvars, sockvars >>

NextRef ==
    \/ \E vt \in Tables, re \in BOOLEAN, we \in BOOLEAN : ConstructInit(vt, re, we)
    \/ Attach
    \/ AddRef
    \/ Release
    \/ AddRefNull
    \/ ReleaseNull
    \/ BackendRespond
    \/ ReturnToCaller

SpecRef == Init /\ [][NextRef]_vars

(***************************************************************************)
(* C1.  On an object initialised by KFileInit, n successful KFileAddRef   *)
(* calls followed by n+1 KFileRelease calls invoke the teardown routine   *)
(* exactly once, in the (n+1)-th Release, and not in the first n.         *)
(***************************************************************************)
C1_OneTeardownOnLastRelease ==
    ( inited /\ ~ addFailed /\ ~ addAfterRel /\ nRel <= nAdd + 1 ) =>
        /\ teardowns = IF nRel = nAdd + 1 THEN 1 ELSE 0
        /\ whackRel = IF nRel = nAdd + 1 THEN nRel ELSE 0

\* two references were added, and the third Release has just torn the object down
C1_Witness ==
    /\ inited /\ ~ addFailed /\ ~ addAfterRel
    /\ nAdd >= 2 /\ nRel = nAdd + 1
    /\ teardowns = 1 /\ whackRel = nRel /\ kfile.refcount = 0

(***************************************************************************)
(* A storing backend: a file that keeps the bytes written to it and hands *)
(* them back, transferring at least one byte and at most the length asked *)
(* for in each call, and 0 bytes only at its end.  A file receives one    *)
(* KFileWriteAll and is read back with KFileReadAll.                      *)
(***************************************************************************)

\* payloads whose bytes tell positions apart
Payloads(n) == { [ i \in 1 .. n |-> i ], [ i \in 1 .. n |-> n + 1 - i ] }

\* what the file may hold before the write: nothing, or old bytes (9)
OldStores == { << >>, [ i \in 1 .. MaxPos + MaxSize |-> 9 ] }

\* the file after bytes were written at offset off; a gap before off reads as 0
WriteAt(f, off, bytes) ==
    [ i \in 1 .. ( IF Len(f) > off + Len(bytes) THEN Len(f) ELSE off + Len(bytes) ) |->
        IF i > off /\ i <= off + Len(bytes) THEN bytes[i - off]
        ELSE IF i <= Len(f) THEN f[i] ELSE 0 ]

\* the caller's buffer after k bytes of the file at offset off arrived at b + at
ReadInto(b, at, f, off, k) ==
    [ i \in 1 .. Len(b) |-> IF i > at /\ i <= at + k THEN f[off + i - at] ELSE b[i] ]

\* the counts a storing backend may report for the pending call
StoreCounts(req) ==
    IF req.fn \in { "read", "timed_read" }
        THEN LET avail == IF Len(store) > req.off THEN Len(store) - req.off ELSE 0 IN
             IF avail = 0 THEN { 0 }
             ELSE 1 .. ( IF avail < req.len THEN avail ELSE req.len )
        ELSE 1 .. req.len

Completed(c) ==
    [ valid |-> TRUE, pos |-> c.pos, size |-> c.size, data |-> c.data, rc |-> c.rc ]

\* a new file, fresh or with old contents, and no write made to it yet
NewFile ==
    /\ alive
    /\ call.pc = "idle"
    /\ lastWrite.valid
    /\ \E f \in OldStores : store' = f
    /\ lastWrite' = NoWrite
    /\ buffer' = << >>
    /\ UNCHANGED << alive, inited, kfile, call, trace, refvars, initvars, mtvars, sockvars >>

CallWriteAll(pos, data) ==
    /\ alive
    /\ call.pc = "idle"
    /\ ~ lastWrite.valid
    /\ LET c == Entry(kfile, NewCall("WriteAll", pos, Len(data), FALSE, FALSE, "null", data)) IN
        /\ call' = c
        /\ lastWrite' = IF c.pc = "done" THEN Completed(c) ELSE lastWrite
    /\ trace' = << >>
    /\ UNCHANGED << alive, inited, kfile, store, buffer, refvars, initvars, mtvars, sockvars >>

CallReadAll(pos, size) ==
    /\ alive
    /\ call.pc = "idle"
    /\ call' = Entry(kfile, NewCall("ReadAll", pos, size, FALSE, FALSE, "null", << >>))
    /\ buffer' = [ i \in 1 .. size |-> 0 ]
    /\ trace' = << >>
    /\ UNCHANGED << alive, inited, kfile, store, lastWrite, refvars, initvars, mtvars, sockvars >>

\* the storing backend serves the pending read or write
StoreRespond ==
    /\ call.pc = "wait"
    /\ \E k \in StoreCounts(call.req) :
        LET c == Resume(kfile, call, Answer("OK", k)) IN
        /\ call' = c
        /\ trace' = Append(trace, Logged(call.req, Answer("OK", k)))
        /\ IF call.req.fn \in { "read", "timed_read" }
              THEN /\ buffer' = ReadInto(buffer, call.total, store, call.req.off, k)
                   /\ UNCHANGED << store, lastWrite >>
              ELSE /\ store' = WriteAt(store, call.req.off,
                                       SubSeq(call.data, call.total + 1, call.total + k))
                   /\ lastWrite' = IF c.pc = "done" THEN Completed(c) ELSE lastWrite
                   /\ UNCHANGED buffer
    /\ UNCHANGED << alive, inited, kfile, refvars, initvars, mtvars, sockvars >>

NextRT ==
    \/ \E vt \in Tables : ConstructInit(vt, TRUE, TRUE)
    \/ NewFile
    \/ \E pos \in 0 .. MaxPos, n \in 0 .. MaxSize : \E data \in Payloads(n) :
          CallWriteAll(pos, data)
    \/ \E pos \in 0 .. MaxPos, n \in 0 .. MaxSize : CallReadAll(pos, n)
    \/ StoreRespond
    \/ ReturnToCaller

InitRT ==
    /\ alive = FALSE /\ inited = FALSE /\ kfile = Blank /\ call = Idle /\ trace = << >>
    /\ store \in OldStores
    /\ buffer = << >> /\ lastWrite = NoWrite
    /\ nAdd = 0 /\ nRel = 0 /\ addFailed = FALSE /\ addAfterRel = FALSE
    /\ teardowns = 0 /\ whackRel = 0
    /\ debugging \in BOOLEAN /\ lastInit = NoInit
    /\ tcall = [ t \in Threads |-> Idle ] /\ held = [ t \in Threads |-> 0 ]
    /\ whack = NoWhack
    /\ sock = NoSock /\ salive = FALSE /\ fds = << >> /\ sop = NoSop /\ sys = << >>
    /\ misuse = FALSE /\ objs = NoObjs /\ fs = { }

SpecRT == InitRT /\ [][NextRT]_vars

\* a KFileReadAll of the region the last KFileWriteAll wrote has returned
ReadBack ==
    /\ Done /\ call.op = "ReadAll" /\ lastWrite.valid
    /\ call.pos = lastWrite.pos /\ call.size = lastWrite.size

(***************************************************************************)
(* C4.  Round trip.  As claimed: for every size N >= 0, KFileWriteAll of  *)
(* N bytes at pos followed by KFileReadAll of N bytes at pos both succeed *)
(* and the buffer holds the bytes written.                                *)
(***************************************************************************)
C4_Original ==
    ReadBack =>
        /\ lastWrite.rc = "OK"
        /\ call.rc = "OK"
        /\ buffer = lastWrite.data

\* C4 as amended: the round trip holds for every N >= 1, with *num_read = N.  For
\* N = 0 KFileWriteAll succeeds and writes nothing, and KFileReadAll fails with
\* the Buffer/Insufficient error without calling the backend.
C4_RoundTrip ==
    ReadBack =>
        /\ lastWrite.rc = "OK"
        /\ call.size >= 1 =>
              ( call.rc = "OK" /\ call.num = call.size /\ buffer = lastWrite.data )
        /\ call.size = 0 => ( call.rc = "BufferInsufficient" /\ trace = << >> )

\* a payload written in chunks over old contents and read back in chunks
C4_Witness ==
    /\ ReadBack /\ call.size >= 2 /\ Len(trace) >= 2 /\ call.pos > 0
    /\ call.rc = "OK" /\ buffer = lastWrite.data /\ buffer # << 0, 0 >>

(***************************************************************************)
(* C2.  KFileReadExactly and KFileTimedReadExactly return success only    *)
(* when the counts the backend delivered add up to the requested bytes,   *)
(* and a successful zero-byte read is at once the end of the call, with   *)
(* the Incomplete-Transfer error.                                         *)
(***************************************************************************)
C2_ExactlyAllOrIncomplete ==
    call.op \in ExactlyOps =>
        /\ ( Done /\ call.rc = "OK" ) => SumCounts(trace) = call.size
        /\ \A i \in 1 .. Len(trace) :
              ( trace[i].rc = "OK" /\ trace[i].count = 0 ) =>
                  /\ i = Len(trace)
                  /\ Done
                  /\ call.rc = "Incomplete"

\* a ReadExactly completed from several partial reads
C2_Witness ==
    /\ Done /\ call.op \in ExactlyOps /\ call.rc = "OK"
    /\ Len(trace) >= 2 /\ call.size >= 2 /\ SumCounts(trace) = call.size

(***************************************************************************)
(* C3.  KFileReadAll and KFileTimedReadAll, once the backend was called:  *)
(* a non-zero total is a success with *num_read = total whatever the last *)
(* backend result was; with a zero total the call returns the backend's   *)
(* last result (its error, or success and *num_read = 0 at end of input). *)
(***************************************************************************)
C3_ReadAllKeepsProgress ==
    ( Done /\ call.op \in ReadAllOps /\ LoopRan ) =>
        LET total == SumCounts(trace) IN
        /\ total # 0 => ( call.rc = "OK" /\ call.num = total )
        /\ total = 0 => ( call.rc = Last(trace).rc /\ call.num = 0 )

\* bytes were read and then the backend failed: the error is dropped
C3_Witness ==
    /\ Done /\ call.op \in ReadAllOps /\ LoopRan
    /\ Last(trace).rc = "IOErr" /\ SumCounts(trace) > 0
    /\ call.rc = "OK" /\ call.num = SumCounts(trace)

(***************************************************************************)
(* C5.  Capability gating.  As claimed: every gated call returns NoPerm   *)
(* and calls no dispatch-table function, whatever its other arguments.    *)
(***************************************************************************)
C5_Original ==
    ( Running /\ Gated ) => ( Done /\ call.rc = "NoPerm" /\ trace = << >> )

\* C5 as amended: a gated call never reaches the dispatch table; it returns NoPerm,
\* except that Read, TimedRead, ReadAll and TimedReadAll given a NULL num_read
\* return the Param/Null error, which they check first.
C5_GatedCallsNoBackend ==
    ( Running /\ Gated ) =>
        /\ Done
        /\ trace = << >>
        /\ call.rc = IF call.op \in CountedReads /\ call.outNull
                         THEN "ParamNull" ELSE "NoPerm"

\* a well-formed ReadAll on a known table, refused for the capability alone
C5_Witness ==
    /\ Done /\ Gated /\ call.op = "ReadAll" /\ kfile.vt.maj = 1
    /\ ~ call.outNull /\ ~ call.bufNull /\ call.size > 0
    /\ call.rc = "NoPerm" /\ trace = << >>

(***************************************************************************)
(* C6.  Unknown major version.  As claimed: every operation on an object  *)
(* whose table has a major version other than 1 fails with BadVersion and *)
(* calls no backend function.                                             *)
(***************************************************************************)
C6_Original ==
    ( Running /\ kfile.vt.maj # 1 ) =>
        ( Done /\ call.rc = "BadVersion" /\ trace = << >> )

\* C6 as amended: on such an object no backend function is ever called, and a call
\* returns BadVersion exactly when it passes the argument checks that precede the
\* version switch; a call that fails one returns that check's result, which is
\* success for a zero-size write and a zero-size ReadExactly.
C6_BadMajorNeverDispatches ==
    ( Running /\ kfile.vt.maj # 1 ) =>
        /\ Done
        /\ trace = << >>
        /\ call.rc = IF Precondition = "pass" THEN "BadVersion" ELSE Precondition

\* a well-formed ReadExactly stopped by the version switch
C6_Witness ==
    /\ Done /\ kfile.vt.maj # 1 /\ call.op = "ReadExactly"
    /\ Precondition = "pass" /\ call.rc = "BadVersion" /\ trace = << >>

(***************************************************************************)
(* C7.  KFileWriteAll and KFileTimedWriteAll, once the loop ran: success  *)
(* if and only if the total equals size; short of size the result is the  *)
(* backend's error, or Incomplete-Transfer when the last backend call     *)
(* reported none; *num_writ is the total.                                 *)
(***************************************************************************)
C7_WriteAllNeedsAll ==
    ( Done /\ call.op \in WriteAllOps /\ LoopRan ) =>
        LET total == SumCounts(trace) IN
        /\ call.rc = "OK" <=> total = call.size
        /\ ( total < call.size /\ Last(trace).rc = "OK" ) => call.rc = "Incomplete"
        /\ ( total < call.size /\ Last(trace).rc # "OK" ) => call.rc = Last(trace).rc
        /\ call.num = total

\* the loop stalled on a zero-count write after some progress
C7_Witness ==
    /\ Done /\ call.op \in WriteAllOps /\ Len(trace) >= 2
    /\ Last(trace).rc = "OK" /\ Last(trace).count = 0
    /\ SumCounts(trace) > 0 /\ call.rc = "Incomplete" /\ call.num = SumCounts(trace)

(***************************************************************************)
(* C8.  Partial progress in the write-side All loops.  As claimed: once   *)
(* at least one byte was written the call returns success.                *)
(***************************************************************************)
C8_Original ==
    ( Done /\ call.op \in WriteAllOps /\ SumCounts(trace) >= 1 ) => call.rc = "OK"

\* C8 as amended: only the read-side All loops turn partial progress into success.
\* A write-side All loop that stops with 0 < total < size fails, with the
\* backend's error or with Incomplete-Transfer, and reports total in *num_writ.
C8_PartialWriteIsAnError ==
    ( Done /\ call.op \in ReadAllOps \cup WriteAllOps
           /\ 0 < SumCounts(trace) /\ SumCounts(trace) < call.size ) =>
        /\ call.num = SumCounts(trace)
        /\ call.op \in ReadAllOps => call.rc = "OK"
        /\ call.op \in WriteAllOps =>
              call.rc = IF Last(trace).rc = "OK" THEN "Incomplete" ELSE Last(trace).rc

\* bytes were written and then the backend failed: the error is returned
C8_Witness ==
    /\ Done /\ call.op \in WriteAllOps
    /\ 0 < SumCounts(trace) /\ SumCounts(trace) < call.size
    /\ Last(trace).rc = "IOErr" /\ call.rc = "IOErr"


(***************************************************************************)
(* C9.  The timed-capability fallback on a table of major 1.               *)
(***************************************************************************)

Untimed(op) ==
    CASE op = "TimedRead"        -> "Read"
      [] op = "TimedReadAll"     -> "ReadAll"
      [] op = "TimedReadExactly" -> "ReadExactly"
      [] op = "TimedWrite"       -> "Write"
      [] op = "TimedWriteAll"    -> "WriteAll"

\* what a caller and a backend can see of a call: where it stands, what it asks
\* of the backend, what it returns
Observable(c) == [ pc |-> c.pc, rc |-> c.rc, num |-> c.num, req |-> c.req ]

RECURSIVE Replay(_, _, _)
\* call c run against the backend answers of trace t, as long as it asks what t asked
Replay(self, c, t) ==
    IF t = << >> THEN c
    ELSE IF c.pc # "wait" \/ c.req # [ fn |-> t[1].fn, off |-> t[1].off,
                                       len |-> t[1].len, tm |-> t[1].tm ]
        THEN [ c EXCEPT !.pc = "diverged" ]
    ELSE Replay(self, Resume(self, c, Answer(t[1].rc, t[1].count)), Tail(t))

\* the untimed counterpart of the call in progress, given the same arguments and
\* the same backend answers
UntimedTwin ==
    Replay(kfile,
           Entry(kfile, NewCall(Untimed(call.op), call.pos, call.size, call.bufNull,
                                call.outNull, "null", call.data)),
           trace)

OnlyFns(fns) == /\ \A i \in 1 .. Len(trace) : trace[i].fn \in fns
                /\ call.pc = "wait" => call.req.fn \in fns

C9_NullTimeoutIsUntimed ==
    ( kfile.vt.min < 2 /\ call.tm = "null" ) =>
        /\ Observable(call) = Observable(UntimedTwin)
        /\ OnlyFns(IF call.op \in ReadOps THEN { "read" } ELSE { "write" })

C9_Minor2IsTimed ==
    ( kfile.vt.min >= 2 /\ call.op \in { "TimedRead", "TimedWrite" } ) =>
        OnlyFns(IF call.op = "TimedRead" THEN { "timed_read" } ELSE { "timed_write" })

\* C9 as claimed: below minor 2 a non-NULL timeout makes the call fail with BadVersion.
C9_Original ==
    ( Running /\ call.op \in TimedOps /\ kfile.vt.maj = 1 ) =>
        /\ C9_NullTimeoutIsUntimed
        /\ ( kfile.vt.min < 2 /\ call.tm = "caller" ) =>
              ( Done /\ trace = << >> /\ call.rc = "BadVersion" )
        /\ C9_Minor2IsTimed

\* C9 as amended: below minor 2 a timed call given a NULL timeout does what its
\* untimed counterpart does, asking the backend the same plain read/write calls
\* and returning the same results; given a non-NULL timeout it calls no backend
\* function and fails with BadVersion when it passes the argument checks that
\* precede the version switch, and with that check's result otherwise (success
\* for a zero-size write or ReadExactly).  At minor >= 2 KFileTimedRead and
\* KFileTimedWrite call only timed_read and timed_write.
C9_TimedFallback ==
    ( Running /\ call.op \in TimedOps /\ kfile.vt.maj = 1 ) =>
        /\ C9_NullTimeoutIsUntimed
        /\ ( kfile.vt.min < 2 /\ call.tm = "caller" ) =>
              /\ Done
              /\ trace = << >>
              /\ call.rc = IF Precondition = "pass" THEN "BadVersion" ELSE Precondition
        /\ C9_Minor2IsTimed

\* a well-formed timed write with a real timeout on a table without timed_write
C9_Witness ==
    /\ Done /\ call.op = "TimedWriteAll" /\ kfile.vt.maj = 1 /\ kfile.vt.min < 2
    /\ call.tm = "caller" /\ Precondition = "pass"
    /\ call.rc = "BadVersion" /\ trace = << >>

(***************************************************************************)
(* C10.  With unbounded blocking requested (KFileReadExactly, or          *)
(* KFileTimedReadExactly given a NULL timeout) a Timeout/Exhausted answer *)
(* of the backend does not end the loop: the same read is issued again,   *)
(* at the same offset and with the total unchanged.  Any other backend    *)
(* error ends the call and is its result.                                 *)
(***************************************************************************)
C10_TimeoutRetriedWhenBlocking ==
    ( call.op \in ExactlyOps /\ ( call.op = "ReadExactly" \/ call.tm = "null" )
        /\ LoopRan ) =>
        LET last == Last(trace) IN
        /\ last.rc = "Timeout" =>
              /\ call.pc = "wait"
              /\ call.req = [ fn |-> last.fn, off |-> last.off,
                              len |-> last.len, tm |-> last.tm ]
              /\ call.total = SumCounts(trace)
              /\ call.req.off = call.pos + call.total
        /\ last.rc = "IOErr" => ( Done /\ call.rc = "IOErr" )

\* a timeout in the middle of a transfer, and the read about to be repeated
C10_Witness ==
    /\ call.op \in ExactlyOps /\ ( call.op = "ReadExactly" \/ call.tm = "null" )
    /\ Len(trace) >= 2 /\ Last(trace).rc = "Timeout" /\ SumCounts(trace) > 0
    /\ call.pc = "wait" /\ call.req.off = call.pos + SumCounts(trace)

(***************************************************************************)
(* C11.  KFileTimedReadExactly given a non-NULL timeout on a table of     *)
(* major 1, minor >= 2: the first backend error, Timeout/Exhausted        *)
(* included, is the last backend call of the loop and is the result of    *)
(* the call, whatever was read before it.                                 *)
(***************************************************************************)
C11_TimedExactlyStopsOnFirstError ==
    ( call.op = "TimedReadExactly" /\ call.tm = "caller"
        /\ kfile.vt.maj = 1 /\ kfile.vt.min >= 2 ) =>
        \A i \in 1 .. Len(trace) :
            trace[i].rc # "OK" =>
                /\ i = Len(trace)
                /\ Done
                /\ call.rc = trace[i].rc

\* bytes were read, then the backend timed out: the call ends with the timeout
C11_Witness ==
    /\ Done /\ call.op = "TimedReadExactly" /\ call.tm = "caller"
    /\ kfile.vt.maj = 1 /\ kfile.vt.min >= 2
    /\ Len(trace) >= 2 /\ SumCounts(trace) > 0
    /\ Last(trace).rc = "Timeout" /\ call.rc = "Timeout"

(***************************************************************************)
(* C12.  Zero-size reads.  As claimed: every read call on a read-enabled  *)
(* object with a requested size of 0 fails with the Buffer/Insufficient   *)
(* error and calls no backend function.                                   *)
(***************************************************************************)
C12_Original ==
    ( Running /\ call.op \in ReadOps /\ kfile.read_enabled /\ call.size = 0 ) =>
        ( Done /\ call.rc = "BufferInsufficient" /\ trace = << >> )

\* C12 as amended: no read call with a requested size of 0 on a read-enabled
\* object calls a backend function.  KFileRead, KFileTimedRead, KFileReadAll and
\* KFileTimedReadAll fail: with Param/Null for a NULL num_read, else with
\* Buffer/Null for a NULL buffer, else with Buffer/Insufficient, and *num_read is 0.
\* KFileReadExactly and KFileTimedReadExactly return success.
C12_ZeroSizeRead ==
    ( Running /\ call.op \in ReadOps /\ kfile.read_enabled /\ call.size = 0 ) =>
        /\ Done
        /\ trace = << >>
        /\ call.rc = IF call.op \in ExactlyOps THEN "OK"
                     ELSE IF call.outNull THEN "ParamNull"
                     ELSE IF call.bufNull THEN "BufferNull"
                     ELSE "BufferInsufficient"
        /\ ( call.op \in CountedReads /\ ~ call.outNull ) => call.num = 0

\* a zero-size KFileTimedReadAll with a buffer and a num_read, refused for its size
C12_Witness ==
    /\ Done /\ call.op = "TimedReadAll" /\ kfile.read_enabled /\ kfile.vt.maj = 1
    /\ call.size = 0 /\ ~ call.outNull /\ ~ call.bufNull
    /\ call.rc = "BufferInsufficient" /\ call.num = 0 /\ trace = << >>

(***************************************************************************)
(* C13.  Zero-size writes.  As claimed: every write call with size 0 is   *)
(* an immediate success with *num_writ = 0 and no backend call, whatever  *)
(* the buffer pointer, the capability flags and the table's version.      *)
(***************************************************************************)
C13_Original ==
    ( Running /\ call.op \in WriteOps /\ call.size = 0 ) =>
        ( Done /\ call.rc = "OK" /\ call.num = 0 /\ trace = << >> )

\* C13 as amended: a write call with size 0 calls no backend function and leaves
\* *num_writ = 0, whatever the buffer pointer and the table's version; it returns
\* success on a write-enabled object and NoPerm on one that is not.
C13_ZeroSizeWrite ==
    ( Running /\ call.op \in WriteOps /\ call.size = 0 ) =>
        /\ Done
        /\ trace = << >>
        /\ call.num = 0
        /\ call.rc = IF kfile.write_enabled THEN "OK" ELSE "NoPerm"

\* a zero-size write with a NULL buffer on a table of an unknown major version
C13_Witness ==
    /\ Done /\ call.op \in WriteOps /\ call.size = 0 /\ call.bufNull
    /\ kfile.write_enabled /\ kfile.vt.maj # 1
    /\ call.rc = "OK" /\ call.num = 0 /\ trace = << >>

(***************************************************************************)
(* Construction on its own: a constructor allocates the object, in memory *)
(* that is zeroed or holds what was there before, and calls KFileInit     *)
(* with a table of any version that may lack functions.  When KFileInit   *)
(* fails the constructor frees the memory again.                          *)
(***************************************************************************)

\* what the memory of a new object may hold before KFileInit
Stale == [ vt |-> FullTable(2, 3), dir |-> "dir", refcount |-> 2,
           read_enabled |-> TRUE, write_enabled |-> TRUE ]

Allocations == { Blank, Stale }

\* tables of every version, with every function or lacking one of them
TablesLacking ==
    { [ maj |-> m, min |-> n, fns |-> TableFns \ lack ] :
        m \in Majors, n \in 0 .. 3, lack \in { { } } \cup { { f } : f \in TableFns } }

Construct(mem, vt, re, we) ==
    /\ ~ alive
    /\ call.pc = "idle"
    /\ LET r == KFileInit(mem, vt, re, we) IN
        /\ kfile' = r.self
        /\ lastInit' = InitRecord(mem, vt, re, we, r.rc)
        /\ call' = Return(NewCall("Init", 0, 0, FALSE, FALSE, "null", << >>), r.rc)
        /\ alive' = ( r.rc = "OK" )
        /\ inited' = ( r.rc = "OK" )
    /\ nAdd' = 0 /\ nRel' = 0 /\ addFailed' = FALSE /\ addAfterRel' = FALSE
    /\ teardowns' = 0 /\ whackRel' = 0
    /\ trace' = << >>
    /\ UNCHANGED << store, buffer, lastWrite, debugging, mtvars, sockvars >>

NextInit ==
    \/ \E mem \in Allocations, vt \in TablesLacking, re \in BOOLEAN, we \in BOOLEAN :
          Construct(mem, vt, re, we)
    \/ Release
    \/ BackendRespond
    \/ ReturnToCaller

SpecInit == Init /\ [][NextInit]_vars

(***************************************************************************)
(* C14.  KFileInit succeeds only for a table of major version 1 and minor *)
(* version 0, 1 or 2; when it fails the object is as it was before the    *)
(* call; when it succeeds the object has the table, a refcount of 1, no   *)
(* owner and the capability flags it was given.                           *)
(***************************************************************************)
C14_InitChecksVersion ==
    lastInit.called =>
        /\ lastInit.rc = "OK" => ( lastInit.vt.maj = 1 /\ lastInit.vt.min \in { 0, 1, 2 } )
        /\ lastInit.rc # "OK" => kfile = lastInit.before
        /\ ( lastInit.rc = "OK" /\ call.op = "Init" /\ Done ) =>
              /\ kfile.vt = lastInit.vt
              /\ kfile.refcount = 1
              /\ kfile.dir = NoDir
              /\ kfile.read_enabled = lastInit.read_enabled
              /\ kfile.write_enabled = lastInit.write_enabled

\* an unknown minor version of major 1, refused, on memory that held something
C14_Witness ==
    /\ lastInit.called /\ call.op = "Init" /\ Done
    /\ lastInit.vt.maj = 1 /\ lastInit.vt.min = 3
    /\ lastInit.rc = "BadVersion" /\ call.rc = "BadVersion"
    /\ lastInit.before = Stale /\ kfile = Stale

(***************************************************************************)
(* C15.  KFileInit fails whenever the table lacks a function its minor    *)
(* version requires: no object is successfully initialised with such a    *)
(* table.                                                                 *)
(***************************************************************************)
C15_Original ==
    ( lastInit.called /\ lastInit.rc = "OK" ) =>
        Required(lastInit.vt.min) \subseteq lastInit.vt.fns

(***************************************************************************)
(* Several threads sharing one object.  KRefcountAdd and KRefcountDrop    *)
(* are atomic, so a KFileAddRef is one step, and a KFileRelease is the    *)
(* atomic drop followed, in the thread that got krefWhack, by the call of *)
(* the teardown routine, during which the other threads run on.  A thread *)
(* adds a reference through one it holds, for itself or for another       *)
(* thread, and releases only references it holds.                         *)
(***************************************************************************)

RECURSIVE SumHeld(_, _)
\* the references held by threads 1 .. n
SumHeld(h, n) == IF n = 0 THEN 0 ELSE h[n] + SumHeld(h, n - 1)

\* thread 1 constructs the object, in a directory that owns it or on its own, and
\* holds the reference KFileInit made
MTCreate(vt, dir) ==
    /\ ~ alive
    /\ call.pc = "idle"
    /\ \A t \in Threads : tcall[t].pc = "idle"
    /\ LET r == KFileInit(Blank, vt, TRUE, TRUE) IN
        /\ r.rc = "OK"
        /\ kfile' = [ r.self EXCEPT !.dir = dir ]
        /\ lastInit' = InitRecord(Blank, vt, TRUE, TRUE, r.rc)
    /\ alive' = TRUE
    /\ inited' = TRUE
    /\ held' = [ t \in Threads |-> IF t = 1 THEN 1 ELSE 0 ]
    /\ teardowns' = 0
    /\ whack' = NoWhack
    /\ UNCHANGED << call, trace, store, buffer, lastWrite, nAdd, nRel, addFailed,
                    addAfterRel, whackRel, debugging, tcall, sockvars >>

\* thread t calls KFileAddRef; the new reference is for thread u
T_AddRef(t, u) ==
    /\ alive
    /\ tcall[t].pc = "idle"
    /\ held[t] >= 1
    /\ LET r == KFileAddRef(kfile, NewCall("AddRef", 0, 0, FALSE, FALSE, "null", << >>)) IN
        /\ kfile' = r.self
        /\ tcall' = [ tcall EXCEPT ![t] = r.call ]
        /\ held' = IF r.call.rc = "OK" THEN [ held EXCEPT ![u] = @ + 1 ] ELSE held
    /\ UNCHANGED << alive, inited, call, trace, store, buffer, lastWrite, refvars,
                    initvars, whack, sockvars >>

\* thread t calls KFileRelease on a reference it holds: the drop, and the entry
\* into the teardown routine when the drop said krefWhack
T_Release(t) ==
    /\ alive
    /\ tcall[t].pc = "idle"
    /\ held[t] >= 1
    /\ LET r == KFileRelease(kfile, NewCall("Release", 0, 0, FALSE, FALSE, "null", << >>))
           h == [ held EXCEPT ![t] = @ - 1 ] IN
        /\ kfile' = r.self
        /\ tcall' = [ tcall EXCEPT ![t] = r.call ]
        /\ held' = h
        /\ IF EntersTeardown(r.self, r.call)
              THEN /\ teardowns' = teardowns + 1
                   /\ whack' = [ by |-> t, from |-> kfile.refcount,
                                 others |-> SumHeld(h, NThreads) ]
              ELSE UNCHANGED << teardowns, whack >>
    /\ UNCHANGED << alive, inited, call, trace, store, buffer, lastWrite, nAdd, nRel,
                    addFailed, addAfterRel, whackRel, initvars, sockvars >>

\* the teardown routine thread t called returns
T_Teardown(t) ==
    /\ tcall[t].pc = "wait"
    /\ tcall[t].req.fn \in TableFns => tcall[t].req.fn \in kfile.vt.fns
    /\ \E r \in Responses(tcall[t].req, << >>) :
        /\ tcall' = [ tcall EXCEPT ![t] = ReturnBackend(tcall[t], r) ]
        /\ alive' = IF r.rc = "OK" THEN FALSE ELSE alive
    /\ UNCHANGED << inited, kfile, call, trace, store, buffer, lastWrite, refvars,
                    initvars, held, whack, sockvars >>

\* thread t returns from its call
T_Return(t) ==
    /\ tcall[t].pc = "done"
    /\ tcall' = [ tcall EXCEPT ![t] = Idle ]
    /\ UNCHANGED << alive, inited, kfile, call, trace, store, buffer, lastWrite, refvars,
                    initvars, held, whack, sockvars >>

NextMT ==
    \/ \E vt \in Tables, dir \in { NoDir, "dir" } : MTCreate(vt, dir)
    \/ \E t \in Threads, u \in Threads : T_AddRef(t, u)
    \/ \E t \in Threads : T_Release(t)
    \/ \E t \in Threads : T_Teardown(t)
    \/ \E t \in Threads : T_Return(t)

SpecMT == Init /\ [][NextMT]_vars

(***************************************************************************)
(* C16.  Under any interleaving of the threads' KFileAddRef and           *)
(* KFileRelease calls the teardown routine is invoked exactly once: by    *)
(* the Release that takes the count from 1 to 0, when no thread holds a   *)
(* reference any more, and not before.                                    *)
(***************************************************************************)
C16_OneTeardownUnderInterleaving ==
    inited =>
        /\ teardowns <= 1
        /\ teardowns = 1 <=> kfile.refcount = 0
        /\ teardowns = 1 => ( whack.from = 1 /\ whack.others = 0 )
        /\ SumHeld(held, NThreads) > 0 => teardowns = 0
        /\ SumHeld(held, NThreads) = 0 => teardowns = 1

\* two Releases in flight at once, from a count of 2: one returned success, the
\* other is in the teardown routine
C16_Witness ==
    /\ inited /\ teardowns = 1 /\ whack.from = 1
    /\ \E t \in Threads, u \in Threads :
        /\ t # u
        /\ tcall[t].op = "Release" /\ tcall[t].pc = "wait" /\ whack.by = t
        /\ tcall[u].op = "Release" /\ tcall[u].pc = "done" /\ tcall[u].rc = "OK"

(***************************************************************************)
(* C17.  The error paths of the reference counter.  A KFileRelease on an  *)
(* object whose count is at or below zero returns Range/Excessive and     *)
(* calls neither KDirectoryDestroyFile nor KFileDestroy; KFileAddRef and  *)
(* KFileRelease on the NULL handle return success and change nothing;     *)
(* KFileAddRef returns Range/Excessive when the count is at its limit.    *)
(***************************************************************************)
C17_RefcountErrorPaths ==
    [][ ( call.pc = "idle" /\ call'.pc # "idle" /\ call'.op \in { "AddRef", "Release" } ) =>
          /\ call'.selfNull =>
                /\ call'.pc = "done" /\ call'.rc = "OK"
                /\ kfile' = kfile /\ alive' = alive /\ teardowns' = teardowns
          /\ ( ~ call'.selfNull /\ call'.op = "Release" /\ kfile.refcount <= 0 ) =>
                /\ call'.pc = "done" /\ call'.rc = "RangeExcessive"
                /\ teardowns' = teardowns
          /\ ( ~ call'.selfNull /\ call'.op = "AddRef" /\ kfile.refcount >= RefLimit ) =>
                /\ call'.pc = "done" /\ call'.rc = "RangeExcessive"
                /\ kfile'.refcount = kfile.refcount
      ]_vars

\* the teardown routine failed and left the object; a further Release was refused
C17_Witness ==
    /\ Done /\ call.op = "Release" /\ ~ call.selfNull
    /\ kfile.refcount <= 0 /\ teardowns = 1
    /\ call.rc = "RangeExcessive" /\ trace = << >>

(***************************************************************************)
(* C18.  The KFileRelease that takes the count to zero runs one teardown  *)
(* routine: KDirectoryDestroyFile when the object has an owning directory *)
(* (the object's destroy hook is then not called by Release), KFileDestroy *)
(* otherwise; what the routine returns is what Release returns.           *)
(***************************************************************************)
C18_OneTeardownPath ==
    ( Done /\ call.op = "Release" /\ ~ call.selfNull /\ whackRel = nRel /\ nRel > 0 ) =>
        /\ Len(trace) = 1
        /\ trace[1].fn = IF kfile.dir # NoDir THEN "KDirectoryDestroyFile" ELSE "destroy"
        /\ call.rc = trace[1].rc

\* the last Release of an object with an owner returned the owner's failure
C18_Witness ==
    /\ Done /\ call.op = "Release" /\ whackRel = nRel /\ nRel >= 2
    /\ kfile.dir # NoDir /\ kfile.refcount = 0
    /\ Len(trace) = 1 /\ trace[1].fn = "KDirectoryDestroyFile"
    /\ trace[1].rc = "IOErr" /\ call.rc = "IOErr"

(***************************************************************************)
(* The whole contract on one object: the object is constructed, may be    *)
(* given an owner, is used for I/O and queries while its first reference  *)
(* is the only one, and is then shared and released.                      *)
(***************************************************************************)

\* KFileGetSysFile or KFileType is called
Query(op, outNull) ==
    /\ alive
    /\ call.pc = "idle"
    /\ nAdd = 0 /\ nRel = 0
    /\ call' = Entry(kfile, NewCall(op, 0, 0, FALSE, outNull, "null", << >>))
    /\ trace' = << >>
    /\ UNCHANGED << alive, inited, kfile, store, buffer, lastWrite, refvars, initvars, mtvars, sockvars >>

\* an I/O operation is called
FirstCall(op, pos, size, bufNull, outNull, tm) ==
    /\ nAdd = 0 /\ nRel = 0
    /\ op # "Destroy"
    /\ Call(op, pos, size, bufNull, outNull, tm)

NextAll ==
    \/ \E vt \in Tables, re \in BOOLEAN, we \in BOOLEAN : ConstructInit(vt, re, we)
    \/ Attach
    \/ \E op \in AllOps : \E pos \in Positions(op), size \in Sizes(op),
          bufNull \in BufNulls(op), outNull \in OutNulls(op), tm \in Timeouts(op) :
            FirstCall(op, pos, size, bufNull, outNull, tm)
    \/ \E outNull \in BOOLEAN : Query("GetSysFile", outNull)
    \/ Query("Type", FALSE)
    \/ AddRef
    \/ Release
    \/ AddRefNull
    \/ ReleaseNull
    \/ BackendRespond
    \/ ReturnToCaller

SpecAll == Init /\ [][NextAll]_vars

(***************************************************************************)
(* C19.  After a successful KFileInit no operation of the contract short  *)
(* of the teardown changes read_enabled, write_enabled or the table: the  *)
(* object has the flags and the table KFileInit was given.                *)
(***************************************************************************)
C19_FlagsAndTableFixed ==
    ( inited /\ alive /\ teardowns = 0 ) =>
        /\ kfile.read_enabled = lastInit.read_enabled
        /\ kfile.write_enabled = lastInit.write_enabled
        /\ kfile.vt = lastInit.vt

\* an object that was shared and released once still has its flags and its table
C19_Witness ==
    /\ inited /\ alive /\ teardowns = 0
    /\ Done /\ call.op = "Release" /\ call.rc = "OK" /\ nAdd >= 1
    /\ lastInit.write_enabled /\ kfile.write_enabled
    /\ ~ lastInit.read_enabled /\ ~ kfile.read_enabled
    /\ kfile.vt = lastInit.vt /\ kfile.vt.min = 2

\* ---------------------------------------------------------------------------
\* The socket transport: a KSocket, the descriptors the OS gives it, and the
\* system calls its functions make, one step per system call.
\* ---------------------------------------------------------------------------

\* the errno values HandleErrno has a case for, "EOTHER" for every other value
\* and "0" for an errno nobody set
ErrnoTable ==
    [ EACCES |-> "Reading/Memory/Unauthorized",
      EADDRINUSE |-> "Reading/Memory/Exists",
      EADDRNOTAVAIL |-> "Reading/Memory/NotFound",
      EAGAIN |-> "Reading/NoObj/Exhausted",
      EAFNOSUPPORT |-> "Reading/Name/Error",
      EALREADY |-> "Reading/Id/Undefined",
      EBADF |-> "Reading/Id/Invalid",
      ECONNREFUSED |-> "Reading/Connection/Canceled",
      ECONNRESET |-> "Reading/Connection/Canceled",
      EDESTADDRREQ |-> "Reading/Id/Invalid",
      EFAULT |-> "Reading/Memory/Outofrange",
      EINPROGRESS |-> "Reading/Id/Undefined",
      EINTR |-> "Reading/Connection/Canceled",
      EINVAL |-> "Reading/Param/Invalid",
      EISCONN |-> "Reading/Connection/Exists",
      ELOOP |-> "Resolving/Link/Excessive",
      EMFILE |-> "Reading/NoObj/Error",
      EMSGSIZE |-> "Reading/Message/Excessive",
      ENAMETOOLONG |-> "Reading/Name/Excessive",
      ENETUNREACH |-> "Reading/Connection/NotAvailable",
      ENOBUFS |-> "Reading/Connection/Interrupted",
      ENOENT |-> "Reading/Id/NotFound",
      ENOMEM |-> "Allocating/Memory/Error",
      ENOTCONN |-> "Reading/Connection/Invalid",
      ENOTDIR |-> "Reading/DirEntry/Error",
      ENOTSOCK |-> "Reading/Id/Invalid",
      EOPNOTSUPP |-> "Reading/Param/Invalid",
      EPERM |-> "Reading/Memory/Unauthorized",
      EPIPE |-> "Reading/Connection/Canceled",
      EPROTONOSUPPORT |-> "Reading/NoObj/Error",
      EROFS |-> "Reading/NoObj/Readonly",
      ETIMEDOUT |-> "Reading/Connection/NotAvailable" ]

\* [variant] an errno nobody set is taken for success
HandleErrno_unsetIsSuccess(errno) ==
    IF errno \in DOMAIN ErrnoTable THEN ErrnoTable[errno]
    ELSE IF errno = "0" THEN "OK" ELSE "Reading/NoObj/Error"

\* the switch of HandleErrno; its default is rcNoObj, rcError
HandleErrno(errno) ==
    IF errno \in DOMAIN ErrnoTable THEN ErrnoTable[errno] ELSE "Reading/NoObj/Error"

\* the errno values the OS is taken to set when a call of the connect loop fails
ConnectErrnos == { "ECONNREFUSED", "ETIMEDOUT", "EMFILE", "EADDRINUSE", "EOTHER", "0" }

\* the endpoint types a caller names: epIPV4, epIPC, and a value that is neither
EndPointTypes == { epIPV4, epIPC, epOther }

\* the millisecond arguments a caller gives: negative, zero, positive
Millis == { 0 - 1, 0, 1 }

\* "listen ( listener -> fd, 5 )"
Backlog == 5

\* a descriptor as socket() returns it
NewFd == [ st |-> "open", connected |-> FALSE, nonblock |-> FALSE, nodelay |-> FALSE,
           shutWR |-> FALSE, shutRD |-> FALSE, reuse |-> FALSE, bound |-> "",
           listening |-> FALSE, backlog |-> 0, queue |-> << >>, local |-> FALSE, peer |-> 0,
           out |-> << >>, sent |-> << >>, rcvd |-> << >> ]

\* the descriptor is one the process holds
OnFd(d) == d \in 1 .. Len(fds) /\ fds[d].st = "open"

\* a system call on descriptor d: logged, and noted when d is closed or unset
SysCall(name, d) ==
    /\ sys' = Append(sys, [ call |-> name, fd |-> d ])
    /\ misuse' = ( misuse \/ ~ OnFd(d) )

\* the connection state of the object, read off its descriptor
ConnState ==
    IF sock.fd = NoFd THEN "Unconnected"
    ELSE IF fds[sock.fd].st = "closed" THEN "Closed"
    ELSE IF fds[sock.fd].shutWR THEN "HalfClosed"
    ELSE IF fds[sock.fd].connected THEN "Connected"
    ELSE "Connecting"

SockIdle == sop.pc = "idle"

\* the object is in a caller's hands: made, and no function of it is running
Published == salive /\ SockIdle

\* the object the function in progress was called on
Self == IF sop.on = "client" THEN sock ELSE objs[sop.on]

\* the same for the listener and for the stream Accept made
PublishedObj(on) ==
    /\ SockIdle
    /\ IF on = "client" THEN salive ELSE objs[on].alive

\* bytes whose values are not followed
AnyBytes(n) == [ i \in 1 .. n |-> "?" ]

\* the directory the environment names as HOME, "NULL" when it names none
Homes == { "NULL", "/home/u" }

\* the names of IPC endpoints
IpcNames == { "probe", "spare" }

\* KSocketMakePath: "$HOME/.ncbi/<name>", or rcPath, rcNotFound without HOME;
\* the buffer was zeroed by the caller and stays so when nothing is printed
KSocketMakePath(home, name) ==
    IF home = "NULL"
    THEN [ rc |-> "Process/Accessing/Path/NotFound", path |-> "" ]
    ELSE [ rc |-> "OK",
           path |-> IF name = "probe" THEN "/home/u/.ncbi/probe" ELSE "/home/u/.ncbi/spare" ]

filevars == << alive, inited, kfile, call, trace, store, buffer, lastWrite, refvars,
               initvars, mtvars >>

\* the outcomes of KNSManagerMakeRetryTimedConnection before the connect loop:
\* the parameter checks, calloc and KStreamInit
MakeOutcomes == { "outNull", "selfNull", "toNull", "typeMismatch", "noMemory", "initFailed", "ok" }

MakeFailure ==
    [ outNull |-> "Stream/Constructing/Param/Null",
      selfNull |-> "Stream/Constructing/Self/Null",
      toNull |-> "Stream/Constructing/Param/Null",
      typeMismatch |-> "Stream/Constructing/Param/Incorrect",
      noMemory |-> "Stream/Constructing/Memory/Exhausted",
      initFailed |-> "KStreamInit failed" ]

\* KNSManagerMakeRetryTimedConnection up to the first system call of the loop
KNSManagerMakeRetryTimedConnection(how, retryTimeout, readMillis, writeMillis, hasFrom, type, home, name) ==
    /\ SockIdle /\ ~ salive
    /\ fds' = IF PublishedObj("listener") \/ PublishedObj("server") THEN fds ELSE << >>
    /\ sys' = << >>
    /\ misuse' = FALSE
    /\ LET made == KSocketMakePath(home, name)
           this == [ NoSop EXCEPT !.name = "Connect", !.kind = type, !.from = hasFrom,
                                  !.retryTimeout = retryTimeout,
                                  !.rc = IF how = "ok" /\ type = epIPC THEN made.rc ELSE "OK",
                                  !.path = IF how = "ok" /\ type = epIPC
                                           THEN made.path ELSE "" ]
       IN  IF how # "ok"
           THEN /\ sop' = [ this EXCEPT !.pc = "done", !.rc = MakeFailure[how] ]
                /\ sock' = NoSock
                /\ salive' = FALSE
           ELSE /\ sock' = [ NoSock EXCEPT !.read_timeout = readMillis,
                                            !.write_timeout = writeMillis ]
                /\ IF type \in { epIPV4, epIPC }
                   THEN /\ sop' = [ this EXCEPT !.pc = "socket" ]
                        /\ salive' = TRUE
                   ELSE /\ sop' = [ this EXCEPT !.pc = "done",
                                                !.rc = "Stream/Constructing/Param/Incorrect" ]
                        /\ salive' = FALSE
    /\ UNCHANGED << filevars, objs, fs >>

MakeConnection ==
    \E how \in MakeOutcomes, retryTimeout \in (0 - 1) .. MaxRetry, r \in Millis, w \in Millis,
       hasFrom \in BOOLEAN, type \in EndPointTypes :
        /\ how = "typeMismatch" => hasFrom
        /\ how # "ok" => ( retryTimeout = 0 /\ r = 0 /\ w = 0 /\ type = epIPV4 )
        /\ \E home \in Homes :
              /\ type # epIPC => home = "NULL"
              /\ KNSManagerMakeRetryTimedConnection(how, retryTimeout, r, w, hasFrom, type,
                                                    home, "probe")

\* "self -> fd = socket ( ... )", and for IPv4 the setsockopt that follows it
KSocketConnect_socket(ok, errno) ==
    /\ sop.name = "Connect" /\ sop.pc = "socket"
    /\ IF ok
       THEN LET d == Len(fds) + 1
            IN  /\ fds' = Append(fds, [ NewFd EXCEPT !.nodelay = ( sop.kind = epIPV4 ) ])
                /\ sock' = [ sock EXCEPT !.fd = d ]
                /\ sys' = sys \o << [ call |-> "socket", fd |-> d ] >>
                             \o ( IF sop.kind = epIPV4
                                  THEN << [ call |-> "setsockopt", fd |-> d ] >> ELSE << >> )
                /\ sop' = [ sop EXCEPT !.pc = IF sop.kind = epIPV4 /\ sop.from
                                              THEN "bind" ELSE "connect" ]
       ELSE /\ sock' = [ sock EXCEPT !.fd = NoFd ]
            /\ sys' = Append(sys, [ call |-> "socket", fd |-> NoFd ])
            /\ sop' = [ sop EXCEPT !.pc = "retry", !.rc = HandleErrno(errno) ]
            /\ UNCHANGED fds
    /\ UNCHANGED << salive, misuse >>
    /\ UNCHANGED << filevars, objs, fs >>

\* "from != NULL && bind ( self -> fd, ... ) != 0"
KSocketConnect_bind(ok, errno) ==
    /\ sop.name = "Connect" /\ sop.pc = "bind"
    /\ SysCall("bind", sock.fd)
    /\ sop' = IF ok THEN [ sop EXCEPT !.pc = "connect" ]
              ELSE [ sop EXCEPT !.pc = "dump", !.rc = HandleErrno(errno) ]
    /\ UNCHANGED << sock, salive, fds >>
    /\ UNCHANGED << filevars, objs, fs >>

\* the descriptor of this process that listens at an IPC path, 0 if none does
ListeningAt(path) ==
    LET at == { d \in 1 .. Len(fds) : /\ fds[d].st = "open" /\ fds[d].listening
                                      /\ path # "" /\ fds[d].bound = path }
    IN  IF at = { } THEN 0 ELSE CHOOSE d \in at : TRUE

\* "connect ( self -> fd, ... ) == 0": on success IPv4 sets O_NONBLOCK, the loop
\* returns 0 and the maker hands the object out
KSocketConnect_connect(ok, errno) ==
    /\ sop.name = "Connect" /\ sop.pc = "connect"
    /\ IF ok
       THEN /\ fds' = LET mine == [ fds EXCEPT ![sock.fd].connected = TRUE,
                                                ![sock.fd].nonblock = ( sop.kind = epIPV4 ),
                                                ![sock.fd].local = ( ListeningAt(sop.path) # 0 ) ]
                      IN  IF ListeningAt(sop.path) # 0
                          THEN [ mine EXCEPT ![ListeningAt(sop.path)].queue =
                                                 Append(@, sock.fd) ]
                          ELSE mine
            /\ sys' = sys \o << [ call |-> "connect", fd |-> sock.fd ] >>
                          \o ( IF sop.kind = epIPV4
                               THEN << [ call |-> "fcntl", fd |-> sock.fd ] >> ELSE << >> )
            /\ misuse' = ( misuse \/ ~ OnFd(sock.fd) )
            /\ sop' = [ sop EXCEPT !.pc = "done", !.rc = "OK" ]
       ELSE /\ SysCall("connect", sock.fd)
            /\ sop' = [ sop EXCEPT !.pc = "dump", !.rc = HandleErrno(errno) ]
            /\ UNCHANGED fds
    /\ UNCHANGED << sock, salive >>
    /\ UNCHANGED << filevars, objs, fs >>

\* [variant] the object forgets the descriptor without closing it
KSocketConnect_dump_noClose ==
    /\ sop.name = "Connect" /\ sop.pc = "dump"
    /\ sock' = [ sock EXCEPT !.fd = NoFd ]
    /\ sop' = [ sop EXCEPT !.pc = "retry" ]
    /\ UNCHANGED << salive, fds, sys, misuse >>
    /\ UNCHANGED << filevars, objs, fs >>

\* [variant] the descriptor is closed and the object keeps its number
KSocketConnect_dump_keepFd ==
    /\ sop.name = "Connect" /\ sop.pc = "dump"
    /\ SysCall("close", sock.fd)
    /\ fds' = [ fds EXCEPT ![sock.fd].st = "closed" ]
    /\ sop' = [ sop EXCEPT !.pc = "retry" ]
    /\ UNCHANGED << sock, salive >>
    /\ UNCHANGED << filevars, objs, fs >>

\* "dump socket": close ( self -> fd ); self -> fd = -1
KSocketConnect_dump ==
    /\ sop.name = "Connect" /\ sop.pc = "dump"
    /\ SysCall("close", sock.fd)
    /\ fds' = [ fds EXCEPT ![sock.fd].st = "closed" ]
    /\ sock' = [ sock EXCEPT !.fd = NoFd ]
    /\ sop' = [ sop EXCEPT !.pc = "retry" ]
    /\ UNCHANGED salive
    /\ UNCHANGED << filevars, objs, fs >>

\* [variant] the retry test without "retryTimeout < 0 ||"
KSocketConnect_retry_bounded ==
    /\ sop.name = "Connect" /\ sop.pc = "retry"
    /\ IF sop.retry_count < sop.retryTimeout
       THEN /\ sop.retry_count < MaxSleeps
            /\ sop' = [ sop EXCEPT !.retry_count = @ + 1, !.rc = "OK", !.pc = "socket" ]
            /\ sys' = Append(sys, [ call |-> "sleep", fd |-> NoFd ])
            /\ UNCHANGED salive
       ELSE /\ sop' = [ sop EXCEPT !.pc = "done" ]
            /\ salive' = FALSE
            /\ UNCHANGED sys
    /\ UNCHANGED << sock, fds, misuse >>
    /\ UNCHANGED << filevars, objs, fs >>

\* [variant] the retry test compares with "<="
KSocketConnect_retry_inclusive ==
    /\ sop.name = "Connect" /\ sop.pc = "retry"
    /\ IF sop.retryTimeout < 0 \/ sop.retry_count <= sop.retryTimeout
       THEN /\ sop.retry_count < MaxSleeps
            /\ sop' = [ sop EXCEPT !.retry_count = @ + 1, !.rc = "OK", !.pc = "socket" ]
            /\ sys' = Append(sys, [ call |-> "sleep", fd |-> NoFd ])
            /\ UNCHANGED salive
       ELSE /\ sop' = [ sop EXCEPT !.pc = "done" ]
            /\ salive' = FALSE
            /\ UNCHANGED sys
    /\ UNCHANGED << sock, fds, misuse >>
    /\ UNCHANGED << filevars, objs, fs >>

\* the retry test at the end of the loop body; when the budget is used up the
\* loop ends, the function returns rc and the maker frees the object
KSocketConnect_retry ==
    /\ sop.name = "Connect" /\ sop.pc = "retry"
    /\ IF sop.retryTimeout < 0 \/ sop.retry_count < sop.retryTimeout
       THEN /\ sop.retry_count < MaxSleeps
            /\ sop' = [ sop EXCEPT !.retry_count = @ + 1, !.rc = "OK", !.pc = "socket" ]
            /\ sys' = Append(sys, [ call |-> "sleep", fd |-> NoFd ])
            /\ UNCHANGED salive
       ELSE /\ sop' = [ sop EXCEPT !.pc = "done" ]
            /\ salive' = FALSE
            /\ UNCHANGED sys
    /\ UNCHANGED << sock, fds, misuse >>
    /\ UNCHANGED << filevars, objs, fs >>

KSocketConnect ==
    \/ \E ok \in BOOLEAN, errno \in ConnectErrnos :
          /\ ok => errno = "0"
          /\ \/ KSocketConnect_socket(ok, errno)
             \/ KSocketConnect_bind(ok, errno)
             \/ KSocketConnect_connect(ok, errno)
    \/ KSocketConnect_dump
    \/ KSocketConnect_retry

\* the function in progress returns to its caller
SockReturn ==
    /\ sop.pc = "done"
    /\ sop' = NoSop
    /\ sys' = << >>
    /\ UNCHANGED << sock, salive, fds, misuse >>
    /\ UNCHANGED << filevars, objs, fs >>

\* ---------------------------------------------------------------------------
\* Reading and writing a connected socket
\* ---------------------------------------------------------------------------

\* the bits of a poll result the functions test
PollFlags == { "POLLIN", "POLLPRI", "POLLOUT", "POLLERR", "POLLHUP", "POLLNVAL",
               "POLLRDNORM", "POLLRDBAND", "POLLWRNORM", "POLLWRBAND", "POLLRDHUP" }

\* the bits socket_wait is asked for by a read and by a write
Interest(op) ==
    IF op \in { "KSocketTimedRead", "KSocketRead" }
    THEN { "POLLIN", "POLLRDNORM", "POLLRDBAND", "POLLPRI", "POLLRDHUP" }
    ELSE { "POLLOUT", "POLLWRNORM", "POLLWRBAND" }

\* a poll result with the conditions in base: POLLIN is reported together with
\* POLLRDNORM, and POLLOUT together with POLLWRNORM
Reported(base) ==
    base \cup ( IF "POLLRDNORM" \in base THEN { "POLLIN" } ELSE { } )
         \cup ( IF "POLLWRNORM" \in base THEN { "POLLOUT" } ELSE { } )

\* the poll results the wait is answered with: no condition, one, or two
Revents ==
    { { } } \cup { Reported({ f, g }) : f \in PollFlags \ { "POLLIN", "POLLOUT" },
                                       g \in PollFlags \ { "POLLIN", "POLLOUT" } }

\* the errno values found after a wait, a recv or a send; "0" is errno unset
IOErrnos == { "0", "EAGAIN", "ECONNRESET", "EOTHER" }

\* the timeouts a caller passes: NULL, or a timeout_t of so many milliseconds
CallerTimeouts == { NullTm } \cup { [ null |-> FALSE, mS |-> m ] : m \in { 0, 1 } }

SockOps == { "KSocketTimedRead", "KSocketRead", "KSocketTimedWrite", "KSocketWrite" }

SockReads == { "KSocketTimedRead", "KSocketRead" }

\* [variant] a default of 0 is handed on as NULL too
DefaultTm_zeroBlocks(millis) ==
    IF millis <= 0 THEN NullTm ELSE [ null |-> FALSE, mS |-> millis ]

\* the timeout KSocketRead and KSocketWrite hand on: NULL for a negative default
DefaultTm(millis) ==
    IF millis < 0 THEN NullTm ELSE [ null |-> FALSE, mS |-> millis ]

\* a read or write is called on an object with a buffer; the next step is its
\* socket_wait
SockCallOn(on, op, buf, tm) ==
    /\ PublishedObj(on)
    /\ sop' = [ NoSop EXCEPT !.name = op, !.on = on, !.pc = "wait", !.bsize = Len(buf),
                             !.data = IF op \in SockReads THEN << >> ELSE buf,
                             !.tm = CASE op = "KSocketRead" ->
                                             DefaultTm(( IF on = "client" THEN sock
                                                         ELSE objs[on] ).read_timeout)
                                      [] op = "KSocketWrite" ->
                                             DefaultTm(( IF on = "client" THEN sock
                                                         ELSE objs[on] ).write_timeout)
                                      [] OTHER -> tm ]
    /\ sys' = << >>
    /\ UNCHANGED << sock, salive, fds, misuse >>
    /\ UNCHANGED << filevars, objs, fs >>

\* the same on the connection a Connect made, with a buffer of bsize bytes
SockCall(op, bsize, tm) == SockCallOn("client", op, AnyBytes(bsize), tm)

\* [variant] a result that reports nothing is followed by a recv all the same
KSocketTimedRead_wait_recvAnyway(neg, revents, errno) ==
    IF neg \/ revents \cap { "POLLERR", "POLLNVAL" } # { }
    THEN IF errno # "0" THEN [ pc |-> "done", rc |-> HandleErrno(errno), num |-> NoNum ]
         ELSE IF neg \/ "POLLERR" \in revents
              THEN [ pc |-> "getsockopt", rc |-> "OK", num |-> NoNum ]
              ELSE [ pc |-> "done", rc |-> "Stream/Reading/NoObj/Unknown", num |-> NoNum ]
    ELSE IF revents \cap { "POLLHUP", "POLLRDHUP" } # { }
    THEN [ pc |-> "done", rc |-> "OK", num |-> 0 ]
    ELSE [ pc |-> "recv", rc |-> "OK", num |-> NoNum ]

\* [variant] the hangup is tested before the data
KSocketTimedRead_wait_hangupFirst(neg, revents, errno) ==
    IF neg \/ revents \cap { "POLLERR", "POLLNVAL" } # { }
    THEN IF errno # "0" THEN [ pc |-> "done", rc |-> HandleErrno(errno), num |-> NoNum ]
         ELSE IF neg \/ "POLLERR" \in revents
              THEN [ pc |-> "getsockopt", rc |-> "OK", num |-> NoNum ]
              ELSE [ pc |-> "done", rc |-> "Stream/Reading/NoObj/Unknown", num |-> NoNum ]
    ELSE IF revents \cap { "POLLHUP", "POLLRDHUP" } # { }
    THEN [ pc |-> "done", rc |-> "OK", num |-> 0 ]
    ELSE IF revents \cap { "POLLRDNORM", "POLLRDBAND" } # { }
    THEN [ pc |-> "recv", rc |-> "OK", num |-> NoNum ]
    ELSE IF revents \ { "POLLIN" } # { } /\ errno # "0"
    THEN [ pc |-> "done", rc |-> HandleErrno(errno), num |-> NoNum ]
    ELSE [ pc |-> "done", rc |-> "Stream/Reading/Timeout/Exhausted", num |-> NoNum ]

\* what KSocketTimedRead does with the result of its wait: neg is a negative
\* result, which has every bit set
KSocketTimedRead_wait(neg, revents, errno) ==
    IF neg \/ revents \cap { "POLLERR", "POLLNVAL" } # { }
    THEN IF errno # "0" THEN [ pc |-> "done", rc |-> HandleErrno(errno), num |-> NoNum ]
         ELSE IF neg \/ "POLLERR" \in revents
              THEN [ pc |-> "getsockopt", rc |-> "OK", num |-> NoNum ]
              ELSE [ pc |-> "done", rc |-> "Stream/Reading/NoObj/Unknown", num |-> NoNum ]
    ELSE IF revents \cap { "POLLRDNORM", "POLLRDBAND" } # { }
    THEN [ pc |-> "recv", rc |-> "OK", num |-> NoNum ]
    ELSE IF revents \cap { "POLLHUP", "POLLRDHUP" } # { }
    THEN [ pc |-> "done", rc |-> "OK", num |-> 0 ]
    ELSE IF revents \ { "POLLIN" } # { } /\ errno # "0"
    THEN [ pc |-> "done", rc |-> HandleErrno(errno), num |-> NoNum ]
    ELSE [ pc |-> "done", rc |-> "Stream/Reading/Timeout/Exhausted", num |-> NoNum ]

\* [variant] the ability to send is tested before the hangup
KSocketTimedWrite_wait_writableFirst(neg, revents, errno) ==
    IF neg \/ revents \cap { "POLLERR", "POLLNVAL" } # { }
    THEN IF errno # "0" THEN [ pc |-> "done", rc |-> HandleErrno(errno), num |-> NoNum ]
         ELSE [ pc |-> "done", rc |-> "Stream/Writing/NoObj/Unknown", num |-> NoNum ]
    ELSE IF revents \cap { "POLLWRNORM", "POLLWRBAND" } # { }
    THEN [ pc |-> "send", rc |-> "OK", num |-> NoNum ]
    ELSE IF "POLLHUP" \in revents
    THEN [ pc |-> "done", rc |-> "OK", num |-> 0 ]
    ELSE IF revents \ { "POLLOUT" } # { } /\ errno # "0"
    THEN [ pc |-> "done", rc |-> HandleErrno(errno), num |-> NoNum ]
    ELSE [ pc |-> "done", rc |-> "Stream/Writing/Timeout/Exhausted", num |-> NoNum ]

\* what KSocketTimedWrite does with the result of its wait
KSocketTimedWrite_wait(neg, revents, errno) ==
    IF neg \/ revents \cap { "POLLERR", "POLLNVAL" } # { }
    THEN IF errno # "0" THEN [ pc |-> "done", rc |-> HandleErrno(errno), num |-> NoNum ]
         ELSE [ pc |-> "done", rc |-> "Stream/Writing/NoObj/Unknown", num |-> NoNum ]
    ELSE IF "POLLHUP" \in revents
    THEN [ pc |-> "done", rc |-> "OK", num |-> 0 ]
    ELSE IF revents \cap { "POLLWRNORM", "POLLWRBAND" } # { }
    THEN [ pc |-> "send", rc |-> "OK", num |-> NoNum ]
    ELSE IF revents \ { "POLLOUT" } # { } /\ errno # "0"
    THEN [ pc |-> "done", rc |-> HandleErrno(errno), num |-> NoNum ]
    ELSE [ pc |-> "done", rc |-> "Stream/Writing/Timeout/Exhausted", num |-> NoNum ]

\* socket_wait on the descriptor returns, with bits it was asked for and the bits
\* poll reports unasked, POLLERR, POLLHUP and POLLNVAL; keep says whether what it
\* returned is kept with the call for inspection
SockWaitKeeping(neg, revents, errno, keep) ==
    /\ sop.name \in SockOps /\ sop.pc = "wait"
    /\ revents \subseteq Interest(sop.name) \cup { "POLLERR", "POLLHUP", "POLLNVAL" }
    /\ sys' = Append(sys, [ call |-> "socket_wait", fd |-> Self.fd, tm |-> sop.tm ])
    /\ misuse' = ( misuse \/ ~ OnFd(Self.fd) )
    /\ LET r == IF sop.name \in SockReads THEN KSocketTimedRead_wait(neg, revents, errno)
                ELSE KSocketTimedWrite_wait(neg, revents, errno)
       IN  sop' = [ sop EXCEPT !.pc = r.pc, !.rc = r.rc, !.num = r.num,
                               !.ev = IF keep
                                      THEN [ neg |-> neg, revents |-> revents,
                                             errno |-> errno ]
                                      ELSE NoEvent ]
    /\ UNCHANGED << sock, salive, fds >>
    /\ UNCHANGED << filevars, objs, fs >>

SockWait(neg, revents, errno) == SockWaitKeeping(neg, revents, errno, FALSE)

\* the getsockopt ( SO_ERROR ) of KSocketTimedRead: opt is "fail" when the call
\* fails, "0" for an option value of 0, otherwise the pending error
KSocketTimedRead_getsockopt(opt) ==
    /\ sop.pc = "getsockopt"
    /\ SysCall("getsockopt", Self.fd)
    /\ sop' = [ sop EXCEPT !.pc = "done",
                           !.rc = IF opt \notin { "fail", "0" } THEN HandleErrno(opt)
                                  ELSE "Stream/Reading/NoObj/Unknown" ]
    /\ UNCHANGED << sock, salive, fds >>
    /\ UNCHANGED << filevars, objs, fs >>

\* the peer of descriptor d is a descriptor of this process
Local(d) == OnFd(d) /\ fds[d].peer # 0

\* the bytes the peer has sent that wait to be received on descriptor d
Inbound(d) == IF Local(d) THEN fds[fds[d].peer].out ELSE << >>

\* the one recv of KSocketTimedRead; count is its return value, and the bytes
\* it stores in the buffer are the first that wait on the descriptor
KSocketTimedRead_recv(count, errno) ==
    /\ sop.pc = "recv"
    /\ count <= sop.bsize
    /\ Local(Self.fd) => count <= Len(Inbound(Self.fd))
    /\ SysCall("recv", Self.fd)
    /\ sop' = IF count >= 0
              THEN [ sop EXCEPT !.pc = "done", !.rc = "OK", !.num = count,
                                !.data = IF Local(Self.fd)
                                         THEN SubSeq(Inbound(Self.fd), 1, count)
                                         ELSE AnyBytes(count) ]
              ELSE [ sop EXCEPT !.pc = "done", !.rc = HandleErrno(errno) ]
    /\ fds' = IF count > 0 /\ Local(Self.fd)
              THEN [ fds EXCEPT ![fds[Self.fd].peer].out = SubSeq(@, count + 1, Len(@)),
                                ![Self.fd].rcvd = @ \o SubSeq(Inbound(Self.fd), 1, count) ]
              ELSE fds
    /\ UNCHANGED << sock, salive >>
    /\ UNCHANGED << filevars, objs, fs >>

\* the one send of KSocketTimedWrite
KSocketTimedWrite_send(count, errno) ==
    /\ sop.pc = "send"
    /\ count <= sop.bsize
    /\ SysCall("send", Self.fd)
    /\ sop' = IF count >= 0 THEN [ sop EXCEPT !.pc = "done", !.rc = "OK", !.num = count ]
              ELSE [ sop EXCEPT !.pc = "done", !.rc = HandleErrno(errno) ]
    /\ fds' = IF count > 0 /\ OnFd(Self.fd) /\ fds[Self.fd].local
              THEN [ fds EXCEPT ![Self.fd].out = @ \o SubSeq(sop.data, 1, count),
                                ![Self.fd].sent = @ \o SubSeq(sop.data, 1, count) ]
              ELSE fds
    /\ UNCHANGED << sock, salive >>
    /\ UNCHANGED << filevars, objs, fs >>

\* a caller calls one of the four functions
SockCalls ==
    \E op \in SockOps, bsize \in 0 .. MaxBuf, tm \in CallerTimeouts :
        /\ op \in { "KSocketRead", "KSocketWrite" } => tm = NullTm
        /\ SockCall(op, bsize, tm)

\* the system calls that follow the wait
SockAnswers ==
    \/ \E opt \in { "fail" } \cup IOErrnos : KSocketTimedRead_getsockopt(opt)
    \/ \E count \in (0 - 1) .. MaxBuf, errno \in IOErrnos :
          /\ count >= 0 => errno = "0"
          /\ \/ KSocketTimedRead_recv(count, errno)
             \/ KSocketTimedWrite_send(count, errno)

SockIO ==
    \/ SockCalls
    \/ \E neg \in BOOLEAN, revents \in Revents, errno \in IOErrnos :
          /\ neg => revents = { }
          /\ SockWait(neg, revents, errno)
    \/ SockAnswers

\* ---------------------------------------------------------------------------
\* Teardown
\* ---------------------------------------------------------------------------

\* the last release of an object calls KSocketWhack through the table
KSocketWhack_enterOn(on) ==
    /\ PublishedObj(on)
    /\ sop' = [ NoSop EXCEPT !.name = "KSocketWhack", !.on = on, !.pc = "shutWR" ]
    /\ sys' = << >>
    /\ UNCHANGED << sock, salive, fds, misuse >>
    /\ UNCHANGED << filevars, objs, fs >>

\* the same on the connection a Connect made
KSocketWhack_enter == KSocketWhack_enterOn("client")

\* shutdown ( self -> fd, SHUT_WR )
KSocketWhack_shutWR ==
    /\ sop.name = "KSocketWhack" /\ sop.pc = "shutWR"
    /\ SysCall("shutdown_WR", Self.fd)
    /\ fds' = [ fds EXCEPT ![Self.fd].shutWR = TRUE ]
    /\ sop' = [ sop EXCEPT !.pc = "drain" ]
    /\ UNCHANGED << sock, salive >>
    /\ UNCHANGED << filevars, objs, fs >>

\* one recv of the drain loop: the loop goes on while the result is positive
KSocketWhack_recv(result) ==
    /\ sop.name = "KSocketWhack" /\ sop.pc = "drain"
    /\ result > 0 => sop.num < MaxDrain
    /\ ( result > 0 /\ Local(Self.fd) ) => Inbound(Self.fd) # << >>
    /\ sys' = Append(sys, [ call |-> "recv", fd |-> Self.fd, result |-> result ])
    /\ misuse' = ( misuse \/ ~ OnFd(Self.fd) )
    /\ sop' = IF result > 0 THEN [ sop EXCEPT !.num = @ + 1 ]
              ELSE [ sop EXCEPT !.pc = "shutRD" ]
    /\ fds' = IF result > 0 /\ Local(Self.fd)
              THEN [ fds EXCEPT ![fds[Self.fd].peer].out = << >> ] ELSE fds
    /\ UNCHANGED << sock, salive >>
    /\ UNCHANGED << filevars, objs, fs >>

\* shutdown ( self -> fd, SHUT_RD )
KSocketWhack_shutRD ==
    /\ sop.name = "KSocketWhack" /\ sop.pc = "shutRD"
    /\ SysCall("shutdown_RD", Self.fd)
    /\ fds' = [ fds EXCEPT ![Self.fd].shutRD = TRUE ]
    /\ sop' = [ sop EXCEPT !.pc = "close" ]
    /\ UNCHANGED << sock, salive >>
    /\ UNCHANGED << filevars, objs, fs >>

\* close ( self -> fd )
KSocketWhack_close ==
    /\ sop.name = "KSocketWhack" /\ sop.pc = "close"
    /\ SysCall("close", Self.fd)
    /\ fds' = [ fds EXCEPT ![Self.fd].st = "closed" ]
    /\ sop' = [ sop EXCEPT !.pc = "free" ]
    /\ UNCHANGED << sock, salive >>
    /\ UNCHANGED << filevars, objs, fs >>

\* [variant] the object is freed and its path left in place
KSocketWhack_free_keepPath ==
    /\ sop.name = "KSocketWhack" /\ sop.pc = "free"
    /\ IF sop.on = "client"
       THEN salive' = FALSE /\ UNCHANGED objs
       ELSE objs' = [ objs EXCEPT ![sop.on].alive = FALSE ] /\ UNCHANGED salive
    /\ sop' = [ sop EXCEPT !.pc = "done", !.rc = "OK" ]
    /\ UNCHANGED << sock, fds, misuse, sys, fs >>
    /\ UNCHANGED filevars

\* the path, if the object has one, is unlinked and freed; the object is freed
KSocketWhack_free ==
    /\ sop.name = "KSocketWhack" /\ sop.pc = "free"
    /\ sys' = IF Self.path # "NULL"
              THEN Append(sys, [ call |-> "unlink", fd |-> NoFd, path |-> Self.path ])
              ELSE sys
    /\ fs' = IF Self.path # "NULL" THEN fs \ { Self.path } ELSE fs
    /\ IF sop.on = "client"
       THEN salive' = FALSE /\ UNCHANGED objs
       ELSE objs' = [ objs EXCEPT ![sop.on].alive = FALSE ] /\ UNCHANGED salive
    /\ sop' = [ sop EXCEPT !.pc = "done", !.rc = "OK" ]
    /\ UNCHANGED << sock, fds, misuse >>
    /\ UNCHANGED filevars

KSocketWhack ==
    \/ KSocketWhack_enter
    \/ KSocketWhack_shutWR
    \/ \E result \in { 0 - 1, 0, 1 } : KSocketWhack_recv(result)
    \/ KSocketWhack_shutRD
    \/ KSocketWhack_close
    \/ KSocketWhack_free

\* ---------------------------------------------------------------------------
\* Listening and accepting
\* ---------------------------------------------------------------------------

\* the outcomes of KNSManagerMakeListener before its first system call: the
\* parameter checks, calloc and KStreamInit
ListenOutcomes == { "outNull", "selfNull", "epNull", "noMemory", "initFailed", "ok" }

ListenFailure ==
    [ outNull |-> "Socket/Constructing/Param/Null",
      selfNull |-> "Socket/Constructing/Self/Null",
      epNull |-> "Socket/Constructing/Param/Null",
      noMemory |-> "Socket/Constructing/Memory/Exhausted",
      initFailed |-> "KStreamInit failed" ]

\* KNSManagerMakeListener up to the socket() of the listener it makes; r and w
\* are the manager's conn_read_timeout and conn_write_timeout
KNSManagerMakeListener(how, type, home, name, r, w) ==
    /\ SockIdle /\ ~ objs["listener"].alive
    /\ sys' = << >>
    /\ LET this == [ NoSop EXCEPT !.name = "Listen", !.on = "listener", !.kind = type,
                                  !.path = IF type = epIPC
                                           THEN KSocketMakePath(home, name).path ELSE "" ]
           made == [ NoObjs["listener"] EXCEPT !.read_timeout = r, !.write_timeout = w ]
       IN  IF how # "ok"
           THEN /\ sop' = [ this EXCEPT !.pc = "done", !.rc = ListenFailure[how] ]
                /\ UNCHANGED objs
           ELSE IF type \in { epIPV4, epIPC }
           THEN /\ sop' = [ this EXCEPT !.pc = "l_socket" ]
                /\ objs' = [ objs EXCEPT !["listener"] = [ made EXCEPT !.alive = TRUE ] ]
           ELSE /\ sop' = [ this EXCEPT !.pc = "done",
                                        !.rc = "Socket/Constructing/Param/Incorrect" ]
                /\ objs' = [ objs EXCEPT !["listener"] = made ]
    /\ fds' = IF salive \/ objs["server"].alive THEN fds ELSE << >>
    /\ UNCHANGED << sock, salive, misuse, fs >>
    /\ UNCHANGED filevars

\* "listener -> fd = socket ( ... )"; IPv4 goes on to SO_REUSEADDR, IPC to
\* KSocketMakePath and string_dup, whose failures lead to the close
KNSManagerMakeListener_socket(ok, errno, dup) ==
    /\ sop.name = "Listen" /\ sop.pc = "l_socket"
    /\ IF ok
       THEN LET d == Len(fds) + 1
            IN  /\ fds' = Append(fds, [ NewFd EXCEPT !.reuse = ( sop.kind = epIPV4 ) ])
                /\ objs' = [ objs EXCEPT !["listener"].fd = d ]
                /\ sys' = sys \o << [ call |-> "socket", fd |-> d ] >>
                             \o ( IF sop.kind = epIPV4
                                  THEN << [ call |-> "setsockopt", fd |-> d ] >> ELSE << >> )
                /\ sop' = IF sop.kind = epIPV4 THEN [ sop EXCEPT !.pc = "l_bind" ]
                          ELSE IF sop.path = ""
                          THEN [ sop EXCEPT !.pc = "l_dump",
                                            !.rc = "Process/Accessing/Path/NotFound" ]
                          ELSE IF ~ dup
                          THEN [ sop EXCEPT !.pc = "l_dump",
                                            !.rc = "Socket/Constructing/Memory/Exhausted" ]
                          ELSE [ sop EXCEPT !.pc = "l_unlink" ]
       ELSE /\ objs' = [ objs EXCEPT !["listener"].fd = NoFd, !["listener"].alive = FALSE ]
            /\ sys' = Append(sys, [ call |-> "socket", fd |-> NoFd ])
            /\ sop' = [ sop EXCEPT !.pc = "done", !.rc = HandleErrno(errno) ]
            /\ UNCHANGED fds
    /\ UNCHANGED << sock, salive, misuse, fs >>
    /\ UNCHANGED filevars

\* [variant] the bind is made without the unlink before it
KNSManagerMakeIPCListener_unlink_skipped ==
    /\ sop.name = "Listen" /\ sop.pc = "l_unlink"
    /\ sop' = [ sop EXCEPT !.pc = "l_bind" ]
    /\ UNCHANGED << sock, salive, fds, misuse, objs, sys, fs >>
    /\ UNCHANGED filevars

\* "unlink ( ss . sun_path )" before the bind of an IPC listener
KNSManagerMakeIPCListener_unlink ==
    /\ sop.name = "Listen" /\ sop.pc = "l_unlink"
    /\ sys' = Append(sys, [ call |-> "unlink", fd |-> NoFd, path |-> sop.path,
                            removed |-> ( sop.path \in fs ) ])
    /\ fs' = fs \ { sop.path }
    /\ sop' = [ sop EXCEPT !.pc = "l_bind" ]
    /\ UNCHANGED << sock, salive, fds, misuse, objs >>
    /\ UNCHANGED filevars

\* bind: an IPC bind makes the path, and cannot succeed while the path exists;
\* on success the IPC listener takes the copy of the path
KNSManagerMakeListener_bind(ok, errno) ==
    /\ sop.name = "Listen" /\ sop.pc = "l_bind"
    /\ ( ok /\ sop.kind = epIPC ) => sop.path \notin fs
    /\ SysCall("bind", Self.fd)
    /\ IF ok
       THEN /\ fds' = [ fds EXCEPT ![Self.fd].bound =
                                       IF sop.kind = epIPC THEN sop.path ELSE "inet" ]
            /\ fs' = IF sop.kind = epIPC THEN fs \cup { sop.path } ELSE fs
            /\ objs' = IF sop.kind = epIPC
                       THEN [ objs EXCEPT !["listener"].path = sop.path ] ELSE objs
            /\ sop' = [ sop EXCEPT !.pc = "l_listen" ]
       ELSE /\ sop' = [ sop EXCEPT !.pc = "l_dump", !.rc = HandleErrno(errno) ]
            /\ UNCHANGED << fds, fs, objs >>
    /\ UNCHANGED << sock, salive >>
    /\ UNCHANGED filevars

\* "close ( listener -> fd ); listener -> fd = -1", the return of rc and the
\* free of the listener
KNSManagerMakeListener_dump ==
    /\ sop.name = "Listen" /\ sop.pc = "l_dump"
    /\ SysCall("close", Self.fd)
    /\ fds' = [ fds EXCEPT ![Self.fd].st = "closed" ]
    /\ objs' = [ objs EXCEPT !["listener"].fd = NoFd, !["listener"].alive = FALSE ]
    /\ sop' = [ sop EXCEPT !.pc = "done" ]
    /\ UNCHANGED << sock, salive, fs >>
    /\ UNCHANGED filevars

\* "listen ( listener -> fd, 5 )": on success the listener is handed out, on
\* failure its path and the listener are freed
KNSManagerMakeListener_listen(ok, errno) ==
    /\ sop.name = "Listen" /\ sop.pc = "l_listen"
    /\ sys' = Append(sys, [ call |-> "listen", fd |-> Self.fd, backlog |-> Backlog ])
    /\ misuse' = ( misuse \/ ~ OnFd(Self.fd) )
    /\ IF ok
       THEN /\ fds' = [ fds EXCEPT ![Self.fd].listening = TRUE, ![Self.fd].backlog = Backlog ]
            /\ sop' = [ sop EXCEPT !.pc = "done", !.rc = "OK" ]
            /\ UNCHANGED objs
       ELSE /\ sop' = [ sop EXCEPT !.pc = "done", !.rc = HandleErrno(errno) ]
            /\ objs' = [ objs EXCEPT !["listener"].alive = FALSE ]
            /\ UNCHANGED fds
    /\ UNCHANGED << sock, salive, fs >>
    /\ UNCHANGED filevars

\* the outcomes of KSocketAccept before the accept: the parameter checks,
\* calloc and KStreamInit
AcceptOutcomes == { "outNull", "selfNull", "noMemory", "initFailed", "ok" }

AcceptFailure ==
    [ outNull |-> "Connection/Waiting/Param/Null",
      selfNull |-> "Connection/Waiting/Self/Null",
      noMemory |-> "Connection/Waiting/Memory/Exhausted",
      initFailed |-> "KStreamInit failed" ]

\* [variant] the switch serves a listener only when its type says epIPC
KSocketAccept_tagged(how) ==
    /\ PublishedObj("listener") /\ ~ objs["server"].alive
    /\ sys' = << >>
    /\ LET self == objs["listener"]
           this == [ NoSop EXCEPT !.name = "Accept", !.on = "listener", !.kind = self.type ]
           conn == [ NoObjs["server"] EXCEPT !.read_timeout = self.read_timeout,
                                             !.write_timeout = self.write_timeout ]
       IN  IF how # "ok"
           THEN /\ sop' = [ this EXCEPT !.pc = "done", !.rc = AcceptFailure[how] ]
                /\ UNCHANGED objs
           ELSE IF self.type = epIPC
           THEN /\ sop' = [ this EXCEPT !.pc = "accept" ]
                /\ objs' = [ objs EXCEPT !["server"] = conn ]
           ELSE /\ sop' = [ this EXCEPT !.pc = "done",
                                        !.rc = "Socket/Constructing/Self/Corrupt" ]
                /\ objs' = [ objs EXCEPT !["server"] = conn ]
    /\ UNCHANGED << sock, salive, fds, misuse, fs >>
    /\ UNCHANGED filevars

\* KSocketAccept up to the accept(): the new object takes the listener's
\* timeouts, and "switch ( self -> type )" chooses the function that accepts
KSocketAccept(how) ==
    /\ PublishedObj("listener") /\ ~ objs["server"].alive
    /\ sys' = << >>
    /\ LET self == objs["listener"]
           this == [ NoSop EXCEPT !.name = "Accept", !.on = "listener", !.kind = self.type ]
           conn == [ NoObjs["server"] EXCEPT !.read_timeout = self.read_timeout,
                                             !.write_timeout = self.write_timeout ]
       IN  IF how # "ok"
           THEN /\ sop' = [ this EXCEPT !.pc = "done", !.rc = AcceptFailure[how] ]
                /\ UNCHANGED objs
           ELSE IF self.type \in { epIPV4, epIPC }
           THEN /\ sop' = [ this EXCEPT !.pc = "accept" ]
                /\ objs' = [ objs EXCEPT !["server"] = conn ]
           ELSE /\ sop' = [ this EXCEPT !.pc = "done",
                                        !.rc = "Socket/Constructing/Self/Corrupt" ]
                /\ objs' = [ objs EXCEPT !["server"] = conn ]
    /\ UNCHANGED << sock, salive, fds, misuse, fs >>
    /\ UNCHANGED filevars

\* the descriptor a connect put on the listening descriptor's queue, 0 if none
Pending(d) ==
    IF OnFd(d) /\ fds[d].queue # << >> THEN Head(fds[d].queue) ELSE 0

\* [variant] an address longer than the structure is truncated without an error
KSocketAccept_accept_truncating(ok, errno, big) ==
    /\ sop.name = "Accept" /\ sop.pc = "accept"
    /\ sys' = Append(sys, [ call |-> "accept", fd |-> Self.fd,
                            len |-> IF ~ ok THEN "none"
                                    ELSE IF big THEN "exceeds" ELSE "fits" ])
    /\ misuse' = ( misuse \/ ~ OnFd(Self.fd) )
    /\ IF ok
       THEN LET d == Len(fds) + 1
                c == Pending(Self.fd)
                end == [ NewFd EXCEPT !.connected = TRUE, !.peer = c, !.local = ( c # 0 ) ]
            IN  /\ fds' = IF c = 0 THEN Append(fds, end)
                          ELSE Append([ fds EXCEPT ![Self.fd].queue = Tail(@),
                                                   ![c].peer = d ], end)
                /\ objs' = [ objs EXCEPT !["server"].fd = d, !["server"].alive = TRUE ]
                /\ sop' = [ sop EXCEPT !.pc = "done", !.rc = "OK" ]
       ELSE /\ objs' = [ objs EXCEPT !["server"].fd = NoFd ]
            /\ sop' = [ sop EXCEPT !.pc = "done", !.rc = HandleErrno(errno) ]
            /\ UNCHANGED fds
    /\ UNCHANGED << sock, salive, fs >>
    /\ UNCHANGED filevars

\* "conn -> fd = accept ( self -> fd, & remote, & len )" of KSocketAcceptIPv4 and
\* KSocketAcceptIPC: big says that len came back larger than the structure given.
\* The new descriptor is the other end of the connection that waited longest,
\* if one waits.
KSocketAccept_accept(ok, errno, big) ==
    /\ sop.name = "Accept" /\ sop.pc = "accept"
    /\ sys' = Append(sys, [ call |-> "accept", fd |-> Self.fd,
                            len |-> IF ~ ok THEN "none"
                                    ELSE IF big THEN "exceeds" ELSE "fits" ])
    /\ misuse' = ( misuse \/ ~ OnFd(Self.fd) )
    /\ IF ok
       THEN LET d == Len(fds) + 1
                c == Pending(Self.fd)
                end == [ NewFd EXCEPT !.connected = TRUE, !.peer = c, !.local = ( c # 0 ) ]
            IN  /\ fds' = IF c = 0 THEN Append(fds, end)
                          ELSE Append([ fds EXCEPT ![Self.fd].queue = Tail(@),
                                                   ![c].peer = d ], end)
                /\ objs' = [ objs EXCEPT !["server"].fd = d, !["server"].alive = ~ big ]
                /\ sop' = IF big
                          THEN [ sop EXCEPT !.pc = "done",
                                            !.rc = "Connection/Waiting/Buffer/Insufficient" ]
                          ELSE [ sop EXCEPT !.pc = "done", !.rc = "OK" ]
       ELSE /\ objs' = [ objs EXCEPT !["server"].fd = NoFd ]
            /\ sop' = [ sop EXCEPT !.pc = "done", !.rc = HandleErrno(errno) ]
            /\ UNCHANGED fds
    /\ UNCHANGED << sock, salive, fs >>
    /\ UNCHANGED filevars

NextSock ==
    \/ MakeConnection
    \/ KSocketConnect
    \/ SockIO
    \/ KSocketWhack
    \/ SockReturn

SpecSock == Init /\ [][NextSock]_vars

\* ---------------------------------------------------------------------------
\* C20
\* ---------------------------------------------------------------------------

\* one step forward along Unconnected, Connecting, Connected, HalfClosed, Closed
Forward ==
    { << "Unconnected", "Connecting" >>, << "Connecting", "Connected" >>,
      << "Connected", "HalfClosed" >>, << "HalfClosed", "Closed" >> }

\* a failed attempt of the connect loop: the descriptor is discarded
FailedAttempt == << "Connecting", "Unconnected" >>

\* C20: while a socket object exists its connection state changes only by one
\* step forward along Unconnected, Connecting, Connected, HalfClosed, Closed, or,
\* when an attempt of the connect loop has failed, from Connecting back to
\* Unconnected with the descriptor discarded; so a teardown reaches Closed only
\* from HalfClosed, nothing leaves Closed and no system call is made on a
\* descriptor that is closed or unset, and a connect that fails leaves the
\* object without a descriptor and never Connected
C20_StateMovesForward ==
    [][ /\ ( salive /\ ConnState' # ConnState ) =>
              \/ << ConnState, ConnState' >> \in Forward
              \/ /\ << ConnState, ConnState' >> = FailedAttempt
                 /\ sop'.name = "Connect" /\ sop'.rc # "OK"
        /\ ( salive /\ ConnState = "Closed" ) => ConnState' = "Closed"
        /\ ~ misuse'
        /\ ( sop'.name = "Connect" /\ sop'.pc \in { "retry", "done" } /\ sop'.rc # "OK" ) =>
              /\ sock'.fd = NoFd
              /\ \A d \in 1 .. Len(fds') : fds'[d].st = "closed" /\ ~ fds'[d].connected
        /\ ( sop'.name = "Connect" /\ sop'.pc = "done" ) =>
              ( salive' <=> sop'.rc = "OK" ) /\ ( salive' <=> ConnState' = "Connected" )
      ]_vars

\* a connection made on a later attempt, after an attempt that failed, has been
\* used and torn down
C20_Witness ==
    /\ sop.name = "KSocketWhack" /\ sop.pc = "done"
    /\ Len(fds) >= 2
    /\ ConnState = "Closed"
    /\ fds[1].st = "closed" /\ ~ fds[1].shutWR
    /\ fds[sock.fd].shutWR /\ fds[sock.fd].shutRD

\* ---------------------------------------------------------------------------
\* C21
\* ---------------------------------------------------------------------------

\* the places in a log of system calls where the call named was made
CallsOf(log, name) == { i \in 1 .. Len(log) : log[i].call = name }

\* C21: when the connect loop gives up with a retry budget R >= 0, it has called
\* socket() for R + 1 attempts and slept R times, one sleep between each two
\* consecutive attempts and none after the last, and it returns the error the
\* last attempt set, unchanged by the discarding of the descriptor; this is so
\* for the IPv4 and for the IPC loop
C21_AttemptsAndSleeps ==
    [][ /\ ( sop.name = "Connect" /\ sop.pc = "retry" /\ sop'.pc = "done" ) =>
              LET attempts == CallsOf(sys', "socket")
                  sleeps == CallsOf(sys', "sleep")
              IN  /\ sop.retryTimeout >= 0 =>
                        /\ Cardinality(attempts) = sop.retryTimeout + 1
                        /\ Cardinality(sleeps) = sop.retryTimeout
                        /\ sop.retry_count = sop.retryTimeout
                        /\ \A s \in sleeps : s < Len(sys') /\ sys'[s + 1].call = "socket"
                        /\ \A a \in attempts : a > 1 => sys'[a - 1].call = "sleep"
                  /\ sop'.rc = sop.rc /\ sop.rc # "OK"
                  /\ sop'.kind \in { epIPV4, epIPC }
        /\ ( sop.name = "Connect" /\ sop.pc = "dump" ) => ( sop'.rc = sop.rc /\ sop.rc # "OK" )
        /\ ( sop.name = "Connect" /\ sop.pc \in { "socket", "bind", "connect" }
               /\ sop'.pc \in { "dump", "retry" } ) =>
              ( \E e \in ConnectErrnos : sop'.rc = HandleErrno(e) )
      ]_vars

\* an IPC connect with a budget of one has failed twice and given up
C21_Witness ==
    /\ sop.name = "Connect" /\ sop.pc = "done" /\ sop.rc # "OK"
    /\ sop.kind = epIPC /\ sop.retryTimeout = 1 /\ sop.retry_count = 1
    /\ Cardinality(CallsOf(sys, "socket")) = 2
    /\ Cardinality(CallsOf(sys, "sleep")) = 1
    /\ Len(fds) >= 1

\* ---------------------------------------------------------------------------
\* C22
\* ---------------------------------------------------------------------------

\* the connect loop of the function in progress has been entered
InLoop == sop.name = "Connect" /\ CallsOf(sys, "socket") # { }

\* C22: with a negative retry budget the connect loop never gives up: after a
\* failed attempt its only step is to sleep and start another attempt, and when
\* the function returns, it returns success from an attempt whose connect
\* succeeded, with the object connected
C22_NegativeBudgetNeverFails ==
    [][ /\ ( sop.name = "Connect" /\ sop.retryTimeout < 0 /\ sop.pc = "retry" ) =>
              /\ sop'.pc = "socket" /\ sop'.rc = "OK"
              /\ sop'.retry_count = sop.retry_count + 1
              /\ sys' = Append(sys, [ call |-> "sleep", fd |-> NoFd ])
              /\ salive'
        /\ ( InLoop' /\ sop'.retryTimeout < 0 /\ sop'.pc = "done" ) =>
              /\ sop'.rc = "OK" /\ salive'
              /\ ConnState' = "Connected"
              /\ \E i \in CallsOf(sys', "connect") :
                    /\ sys'[i].fd = sock'.fd
                    /\ \A j \in CallsOf(sys', "socket") : j < i
      ]_vars

\* a connect with a negative budget has failed twice, slept twice and then
\* succeeded
C22_Witness ==
    /\ InLoop /\ sop.retryTimeout < 0 /\ sop.pc = "done" /\ sop.rc = "OK"
    /\ Cardinality(CallsOf(sys, "sleep")) = 2
    /\ Cardinality(CallsOf(sys, "socket")) = 3
    /\ ConnState = "Connected"

\* ---------------------------------------------------------------------------
\* Reading and writing on its own: a connection as a first successful connect
\* leaves it, and every result of each wait kept for inspection
\* ---------------------------------------------------------------------------

\* the descriptor of a connection made at the first attempt
ConnectedFd(type) ==
    [ NewFd EXCEPT !.connected = TRUE, !.nodelay = ( type = epIPV4 ),
                   !.nonblock = ( type = epIPV4 ) ]

InitIO ==
    /\ alive = FALSE
    /\ inited = FALSE
    /\ kfile = Blank
    /\ call = Idle
    /\ trace = << >>
    /\ store = << >>
    /\ buffer = << >>
    /\ lastWrite = NoWrite
    /\ nAdd = 0 /\ nRel = 0 /\ addFailed = FALSE /\ addAfterRel = FALSE
    /\ teardowns = 0 /\ whackRel = 0
    /\ debugging = FALSE
    /\ lastInit = NoInit
    /\ tcall = [ t \in Threads |-> Idle ]
    /\ held = [ t \in Threads |-> 0 ]
    /\ whack = NoWhack
    /\ \E m \in Millis :
          sock = [ NoSock EXCEPT !.fd = 1, !.read_timeout = m, !.write_timeout = m ]
    /\ salive = TRUE
    /\ \E type \in { epIPV4, epIPC } : fds = << ConnectedFd(type) >>
    /\ sop = NoSop
    /\ sys = << >>
    /\ misuse = FALSE
    /\ objs = NoObjs
    /\ fs = { }

NextIO ==
    \/ SockCalls
    \/ \E neg \in BOOLEAN, revents \in Revents, errno \in IOErrnos :
          /\ neg => revents = { }
          /\ SockWaitKeeping(neg, revents, errno, TRUE)
    \/ SockAnswers
    \/ SockReturn

SpecIO == InitIO /\ [][NextIO]_vars

\* ---------------------------------------------------------------------------
\* C23
\* ---------------------------------------------------------------------------

\* a timeout_t of zero milliseconds
ZeroTm == [ null |-> FALSE, mS |-> 0 ]

\* the wait reported no error: no negative result, no error or invalid bit,
\* and no error code to go with any other bit
NoOsError(ev) ==
    /\ ~ ev.neg
    /\ ev.revents \cap { "POLLERR", "POLLNVAL" } = { }
    /\ ( ev.errno = "0" \/ ev.revents = { } )

\* the wait reported nothing to read
NoPendingData(ev) ==
    ev.revents \cap { "POLLIN", "POLLPRI", "POLLRDNORM", "POLLRDBAND" } = { }

\* the wait reported no hangup of the peer
NoHangup(ev) == ev.revents \cap { "POLLHUP", "POLLRDHUP" } = { }

\* the function in progress has its wait behind it
Waited == sop.pc \notin { "idle", "wait" }

\* C23: KSocketTimedRead called with a timeout of zero milliseconds, whose wait
\* reports no data, no error and no hangup, has made one system call, the wait
\* with that zero timeout, has issued no recv, has not written *num_read (which
\* stays as the caller set it) and returns Timeout/Exhausted
C23_ZeroTimeoutRead ==
    ( sop.name = "KSocketTimedRead" /\ sop.tm = ZeroTm /\ Waited
        /\ NoOsError(sop.ev) /\ NoPendingData(sop.ev) /\ NoHangup(sop.ev) ) =>
        /\ sop.pc = "done"
        /\ sop.rc = "Stream/Reading/Timeout/Exhausted"
        /\ sys = << [ call |-> "socket_wait", fd |-> sock.fd, tm |-> ZeroTm ] >>
        /\ sop.num = NoNum
        /\ ~ misuse

\* a read with a zero timeout has come back from a wait that reported nothing
C23_Witness ==
    /\ sop.name = "KSocketTimedRead" /\ sop.tm = ZeroTm /\ sop.pc = "done"
    /\ sop.ev = [ neg |-> FALSE, revents |-> { }, errno |-> "0" ]
    /\ sop.rc = "Stream/Reading/Timeout/Exhausted"
    /\ Len(sys) = 1

\* ---------------------------------------------------------------------------
\* Listeners, the streams they accept, and their teardown
\* ---------------------------------------------------------------------------

MakeListener ==
    \E how \in ListenOutcomes, type \in EndPointTypes, home \in Homes, m \in Millis :
        /\ how # "ok" => ( type = epIPV4 /\ m = 0 )
        /\ type # epIPC => home = "NULL"
        /\ Len(fds) < MaxFds
        /\ KNSManagerMakeListener(how, type, home, "probe", m, m)

ListenSteps ==
    \/ \E ok \in BOOLEAN, errno \in ConnectErrnos, dup \in BOOLEAN :
          /\ ok => errno = "0"
          /\ ( ~ ok \/ sop.kind # epIPC \/ sop.path = "" ) => dup
          /\ KNSManagerMakeListener_socket(ok, errno, dup)
    \/ KNSManagerMakeIPCListener_unlink
    \/ \E ok \in BOOLEAN, errno \in ConnectErrnos :
          /\ ok => errno = "0"
          /\ \/ KNSManagerMakeListener_bind(ok, errno)
             \/ KNSManagerMakeListener_listen(ok, errno)
    \/ KNSManagerMakeListener_dump

Accept ==
    \/ \E how \in AcceptOutcomes :
          /\ Len(fds) < MaxFds
          /\ KSocketAccept(how)
    \/ \E ok \in BOOLEAN, errno \in ConnectErrnos, big \in BOOLEAN :
          /\ ok => errno = "0"
          /\ ~ ok => ~ big
          /\ KSocketAccept_accept(ok, errno, big)

\* the steps of KSocketWhack after it is entered
WhackSteps ==
    \/ KSocketWhack_shutWR
    \/ \E result \in { 0 - 1, 0, 1 } : KSocketWhack_recv(result)
    \/ KSocketWhack_shutRD
    \/ KSocketWhack_close
    \/ KSocketWhack_free

NextListen ==
    \/ MakeListener
    \/ ListenSteps
    \/ Accept
    \/ \E on \in { "listener", "server" } : KSocketWhack_enterOn(on)
    \/ WhackSteps
    \/ SockReturn

InitListen == Init /\ debugging = FALSE

SpecListen == InitListen /\ [][NextListen]_vars

\* ---------------------------------------------------------------------------
\* C24
\* ---------------------------------------------------------------------------

\* C24: a teardown that has finished on a descriptor d has made these system
\* calls and no others, in this order: shutdown of the write side of d; one or
\* more recv on d, every one but the last returning data and the last returning
\* 0 or an error; shutdown of the read side of d; close of d; and, exactly when
\* the object has a path, unlink of that path; after that the path the
\* descriptor of an IPC listener was bound to does not exist
C24_TeardownOrder ==
    ( sop.name = "KSocketWhack" /\ sop.pc = "done" ) =>
        LET d == Self.fd
            owns == Self.path # "NULL"
            k == IF owns THEN Len(sys) - 1 ELSE Len(sys)
        IN  /\ k >= 4
            /\ sys[1] = [ call |-> "shutdown_WR", fd |-> d ]
            /\ \A i \in 2 .. k - 2 :
                  /\ sys[i].call = "recv" /\ sys[i].fd = d
                  /\ ( sys[i].result > 0 ) <=> ( i < k - 2 )
            /\ sys[k - 1] = [ call |-> "shutdown_RD", fd |-> d ]
            /\ sys[k] = [ call |-> "close", fd |-> d ]
            /\ owns => /\ sys[Len(sys)] = [ call |-> "unlink", fd |-> NoFd,
                                             path |-> Self.path ]
                       /\ Self.path \notin fs
            /\ fds[d].bound \notin { "", "inet" } =>
                  ( owns /\ fds[d].bound = Self.path /\ fds[d].bound \notin fs )
            /\ fds[d].st = "closed" /\ fds[d].shutWR /\ fds[d].shutRD
            /\ ~ misuse

\* an IPC listener has been torn down after a drain that received data once
C24_Witness ==
    /\ sop.name = "KSocketWhack" /\ sop.pc = "done" /\ sop.on = "listener"
    /\ Self.path = "/home/u/.ncbi/probe"
    /\ Len(sys) = 6
    /\ sys[2].result > 0
    /\ sys[6].call = "unlink"
    /\ fs = { }

\* ---------------------------------------------------------------------------
\* A listener, a client and the accepted stream in one process, over an
\* operating system that serves local stream sockets: a connect succeeds when a
\* descriptor listens at the path, an accept takes the connection that waits,
\* a descriptor is readable when bytes wait on it, and a recv takes the bytes
\* that wait, as many as fit the buffer
\* ---------------------------------------------------------------------------

\* the value of HOME in the process
HomeDir == "/home/u"

\* the buffers a client writes
Buffers == UNION { [ 1 .. n -> { "a", "b" } ] : n \in 1 .. MaxBuf }

Min(a, b) == IF a < b THEN a ELSE b

IPCListen ==
    \/ KNSManagerMakeListener("ok", epIPC, HomeDir, "probe", 0 - 1, 0 - 1)
    \/ KNSManagerMakeListener_socket(TRUE, "0", TRUE)
    \/ KNSManagerMakeIPCListener_unlink
    \/ KNSManagerMakeListener_bind(TRUE, "0")
    \/ KNSManagerMakeListener_listen(TRUE, "0")

IPCConnect ==
    \/ \E name \in IpcNames :
          /\ Len(fds) < MaxFds
          /\ KNSManagerMakeRetryTimedConnection("ok", 0, 0, 0, FALSE, epIPC, HomeDir, name)
    \/ KSocketConnect_socket(TRUE, "0")
    \/ IF ListeningAt(sop.path) # 0
       THEN KSocketConnect_connect(TRUE, "0")
       ELSE KSocketConnect_connect(FALSE, "ECONNREFUSED")
    \/ KSocketConnect_dump
    \/ KSocketConnect_retry

IPCAccept ==
    \/ /\ Pending(objs["listener"].fd) # 0
       /\ KSocketAccept("ok")
    \/ KSocketAccept_accept(TRUE, "0", FALSE)

IPCWrite ==
    \/ \E buf \in Buffers, op \in { "KSocketWrite", "KSocketTimedWrite" } :
          /\ OnFd(sock.fd) /\ fds[sock.fd].local
          /\ Len(fds[sock.fd].sent) + Len(buf) <= MaxSent
          /\ SockCallOn("client", op, buf, NullTm)
    \/ /\ sop.name \notin SockReads
       /\ SockWait(FALSE, { "POLLOUT", "POLLWRNORM" }, "0")
    \/ \E count \in 1 .. MaxBuf : KSocketTimedWrite_send(count, "0")

IPCRead ==
    \/ \E bsize \in 1 .. MaxBuf, op \in SockReads :
          SockCallOn("server", op, AnyBytes(bsize), [ null |-> FALSE, mS |-> 0 ])
    \/ /\ sop.name \in SockReads
       /\ IF Inbound(Self.fd) # << >>
          THEN SockWait(FALSE, { "POLLIN", "POLLRDNORM" }, "0")
          ELSE sop.tm # NullTm /\ SockWait(FALSE, { }, "0")
    \/ /\ sop.pc = "recv"
       /\ KSocketTimedRead_recv(Min(sop.bsize, Len(Inbound(Self.fd))), "0")

NextIPC ==
    \/ IPCListen
    \/ IPCConnect
    \/ IPCAccept
    \/ IPCWrite
    \/ IPCRead
    \/ SockReturn

SpecIPC == InitListen /\ [][NextIPC]_vars

\* ---------------------------------------------------------------------------
\* C25
\* ---------------------------------------------------------------------------

\* the last n elements of a sequence
LastOf(s, n) == SubSeq(s, Len(s) - n + 1, Len(s))

\* C25: over local stream sockets, (a) a Connect to the IPC name a listener
\* listens on succeeds and leaves a connected client; (b) an Accept on the
\* listener then returns a stream whose descriptor is the other end of the
\* client's; (c) the bytes the client's writes have passed on are, in order and
\* unchanged, the bytes the reads of the accepted stream have taken followed by
\* the bytes still on the way; (d) a read hands its caller the bytes it took,
\* and (e) a write passes on the first bytes of its caller's buffer
C25_RoundTrip ==
    /\ ( sop.name = "Connect" /\ sop.pc = "done" /\ ListeningAt(sop.path) # 0 ) =>
          ( sop.rc = "OK" /\ salive /\ OnFd(sock.fd) /\ fds[sock.fd].connected )
    /\ ( sop.name = "Accept" /\ sop.pc = "done" ) =>
          /\ sop.rc = "OK" /\ objs["server"].alive /\ OnFd(objs["server"].fd)
          /\ salive
          /\ fds[objs["server"].fd].peer = sock.fd
          /\ fds[sock.fd].peer = objs["server"].fd
    /\ objs["server"].alive =>
          LET s == objs["server"].fd
              c == fds[s].peer
          IN  fds[c].sent = fds[s].rcvd \o fds[c].out
    /\ ( sop.name \in SockReads /\ sop.pc = "done" /\ sop.rc = "OK" ) =>
          /\ Len(sop.data) = sop.num
          /\ sop.data = LastOf(fds[Self.fd].rcvd, sop.num)
    /\ ( sop.name \in SockOps \ SockReads /\ sop.pc = "done" /\ sop.rc = "OK" ) =>
          LastOf(fds[Self.fd].sent, sop.num) = SubSeq(sop.data, 1, sop.num)

\* the client wrote "a" and then "b", and a read of the accepted stream has
\* just returned the "b" after an earlier read returned the "a"
C25_Witness ==
    /\ objs["listener"].alive /\ objs["server"].alive /\ salive
    /\ objs["listener"].path = "/home/u/.ncbi/probe"
    /\ fds[sock.fd].sent = << "a", "b" >>
    /\ fds[sock.fd].out = << >>
    /\ sop.name = "KSocketRead" /\ sop.on = "server" /\ sop.pc = "done"
    /\ sop.rc = "OK" /\ sop.data = << "b" >>
    /\ fds[objs["server"].fd].rcvd = << "a", "b" >>

\* ---------------------------------------------------------------------------
\* C26
\* ---------------------------------------------------------------------------

\* C26: when the accept() of an Accept has reported a peer address longer than
\* the structure it was given, on a listener made for IPv4 as on one made for
\* IPC, the Accept returns Connection/Waiting/Buffer/Insufficient and hands out
\* no stream; when the address fits it returns success and a stream
C26_AddressTooLong ==
    ( sop.name = "Accept" /\ sop.pc = "done" /\ CallsOf(sys, "accept") # { } ) =>
        LET len == sys[Len(sys)].len
        IN  /\ len = "exceeds" =>
                  ( sop.rc = "Connection/Waiting/Buffer/Insufficient"
                    /\ ~ objs["server"].alive )
            /\ len = "fits" => ( sop.rc = "OK" /\ objs["server"].alive )
            /\ len = "none" => ( sop.rc # "OK" /\ ~ objs["server"].alive )

\* the accept() on a listener made for IPC reported an address that is too long
C26_Witness ==
    /\ sop.name = "Accept" /\ sop.pc = "done"
    /\ objs["listener"].path # "NULL"
    /\ Len(sys) = 1 /\ sys[1].call = "accept" /\ sys[1].len = "exceeds"
    /\ sop.rc = "Connection/Waiting/Buffer/Insufficient"

\* the same on a listener made for IPv4
C26_WitnessIPv4 ==
    /\ sop.name = "Accept" /\ sop.pc = "done"
    /\ objs["listener"].path = "NULL" /\ fds[objs["listener"].fd].bound = "inet"
    /\ Len(sys) = 1 /\ sys[1].len = "exceeds"

\* ---------------------------------------------------------------------------
\* HandleErrno on its own, for every value of errno
\* ---------------------------------------------------------------------------

\* the values of errno: those with a case, one without, and errno unset
Errnos == DOMAIN ErrnoTable \cup { "EOTHER", "0" }

\* what HandleErrno logs: PLOGERR in the default case of the switch, and under
\* _DEBUGGING a pLogMsg of every rc that is not 0
HandleErrnoLog(errno, rc) ==
    ( IF errno \in DOMAIN ErrnoTable THEN << >>
      ELSE << [ call |-> "PLOGERR", fd |-> NoFd, errno |-> errno ] >> )
    \o ( IF debugging /\ rc # "OK"
         THEN << [ call |-> "pLogMsg", fd |-> NoFd, errno |-> errno ] >> ELSE << >> )

\* a system call has failed and left errno; its caller calls HandleErrno
HandleErrno_enter(errno) ==
    /\ SockIdle
    /\ sop' = [ NoSop EXCEPT !.name = "HandleErrno", !.pc = "switch",
                             !.ev = [ NoEvent EXCEPT !.errno = errno ] ]
    /\ sys' = << >>
    /\ UNCHANGED << sock, salive, fds, misuse >>
    /\ UNCHANGED << filevars, objs, fs >>

\* the switch, the logging and the return of HandleErrno
HandleErrno_switch ==
    /\ sop.name = "HandleErrno" /\ sop.pc = "switch"
    /\ sop' = [ sop EXCEPT !.pc = "done", !.rc = HandleErrno(sop.ev.errno) ]
    /\ sys' = HandleErrnoLog(sop.ev.errno, HandleErrno(sop.ev.errno))
    /\ UNCHANGED << sock, salive, fds, misuse >>
    /\ UNCHANGED << filevars, objs, fs >>

NextErrno ==
    \/ \E errno \in Errnos : HandleErrno_enter(errno)
    \/ HandleErrno_switch
    \/ SockReturn

SpecErrno == Init /\ [][NextErrno]_vars

\* ---------------------------------------------------------------------------
\* C27
\* ---------------------------------------------------------------------------

TimeoutsPassed ==
    [ i \in 1 .. Len(trace) |-> trace[i].tm ]
        \o ( IF call.pc = "wait" THEN << call.req.tm >> ELSE << >> )

\* C28 as claimed: in a KFileTimedWriteAll on a minor >= 2 table the first
\* timed_write gets the caller's timeout and every later one a zero timeout
C28_Original ==
    ( Running /\ call.op = "TimedWriteAll" /\ kfile.vt.maj = 1 /\ kfile.vt.min >= 2 ) =>
        \A i \in 1 .. Len(TimeoutsPassed) :
            TimeoutsPassed[i] = IF i = 1 THEN call.tm ELSE "noblock"

\* C28 as amended: in a KFileTimedWriteAll on a minor >= 2 table every call of
\* the loop is a timed_write that gets the caller's timeout, NULL included, the
\* first as every later one; no timed_write gets a zero timeout
C28_WriteAllTimeouts ==
    ( Running /\ call.op = "TimedWriteAll" /\ kfile.vt.maj = 1 /\ kfile.vt.min >= 2 ) =>
        /\ OnlyFns({ "timed_write" })
        /\ \A i \in 1 .. Len(TimeoutsPassed) : TimeoutsPassed[i] = call.tm

\* a KFileTimedWriteAll with a real timeout has finished after two timed_write
C28_Witness ==
    /\ Done /\ call.op = "TimedWriteAll" /\ kfile.vt.maj = 1 /\ kfile.vt.min >= 2
    /\ call.tm = "caller" /\ call.rc = "OK"
    /\ Len(trace) = 2 /\ trace[2].tm = "caller"

\* ---------------------------------------------------------------------------
\* C29, C30
\* ---------------------------------------------------------------------------

\* the wait failed or reported an error or an invalid descriptor
WaitError(ev) == ev.neg \/ ev.revents \cap { "POLLERR", "POLLNVAL" } # { }

\* the wait reported data to read
DataReady(ev) == ev.revents \cap { "POLLIN", "POLLRDNORM", "POLLRDBAND" } # { }

\* the wait reported room to write
Writable(ev) == ev.revents \cap { "POLLOUT", "POLLWRNORM", "POLLWRBAND" } # { }

\* the rc values HandleErrno gives for the errno values of the alphabet
Translated == { HandleErrno(e) : e \in IOErrnos }

\* C29: a read that has returned has classified the result of its wait in this
\* order.  (1) A failed wait or an error or invalid bit: no recv, no count, and
\* the rc HandleErrno gives for errno, or for the pending error getsockopt
\* found, or Stream/Reading/NoObj/Unknown when there is neither.  (2) Else data
\* ready, with or without a hangup: one recv, whose count is returned with
\* success (or whose errno is translated when it fails).  (3) Else a hangup:
\* success with 0 bytes and no recv.  (4) Timeout/Exhausted is returned only
\* when no error, no data and no hangup was reported, without a recv.
C29_ReadPrecedence ==
    ( sop.name \in SockReads /\ sop.pc = "done" ) =>
        LET ev == sop.ev
            recvs == CallsOf(sys, "recv")
        IN  /\ WaitError(ev) =>
                  /\ recvs = { } /\ sop.num = NoNum
                  /\ IF ev.errno # "0" THEN sop.rc = HandleErrno(ev.errno)
                     ELSE IF CallsOf(sys, "getsockopt") = { }
                     THEN sop.rc = "Stream/Reading/NoObj/Unknown"
                     ELSE sop.rc \in Translated \cup { "Stream/Reading/NoObj/Unknown" }
            /\ ( ~ WaitError(ev) /\ DataReady(ev) ) =>
                  /\ Cardinality(recvs) = 1
                  /\ \/ sop.rc = "OK" /\ sop.num >= 0 /\ sop.num = Len(sop.data)
                     \/ sop.rc \in Translated /\ sop.num = NoNum
            /\ ( ~ WaitError(ev) /\ ~ DataReady(ev) /\ ~ NoHangup(ev) ) =>
                  ( recvs = { } /\ sop.rc = "OK" /\ sop.num = 0 )
            /\ sop.rc = "Stream/Reading/Timeout/Exhausted" =>
                  /\ ~ WaitError(ev) /\ ~ DataReady(ev) /\ NoHangup(ev)
                  /\ recvs = { } /\ sop.num = NoNum

\* a wait reported data and a hangup at once, and the read returned the byte
\* its one recv took
C29_Witness ==
    /\ sop.name = "KSocketTimedRead" /\ sop.pc = "done"
    /\ sop.ev = [ neg |-> FALSE, revents |-> { "POLLIN", "POLLRDNORM", "POLLHUP" },
                  errno |-> "0" ]
    /\ sop.rc = "OK" /\ sop.num = 1
    /\ Cardinality(CallsOf(sys, "recv")) = 1

\* C30: a write that has returned has classified the result of its wait in
\* this order.  A failed wait or an error or invalid bit: an error, the rc
\* HandleErrno gives for errno or Stream/Writing/NoObj/Unknown, and no send.
\* Else a hangup, writable or not: success with 0 bytes and no send.  Else
\* writable: one send, whose count is returned with success (or whose errno is
\* translated when it fails).  Else Timeout/Exhausted and no send.
C30_WritePrecedence ==
    ( sop.name \in SockOps \ SockReads /\ sop.pc = "done" ) =>
        LET ev == sop.ev
            sends == CallsOf(sys, "send")
            hup == "POLLHUP" \in ev.revents
        IN  /\ WaitError(ev) =>
                  /\ sends = { } /\ sop.num = NoNum
                  /\ sop.rc = IF ev.errno # "0" THEN HandleErrno(ev.errno)
                              ELSE "Stream/Writing/NoObj/Unknown"
            /\ ( ~ WaitError(ev) /\ hup ) =>
                  ( sends = { } /\ sop.rc = "OK" /\ sop.num = 0 )
            /\ ( ~ WaitError(ev) /\ ~ hup /\ Writable(ev) ) =>
                  /\ Cardinality(sends) = 1
                  /\ \/ sop.rc = "OK" /\ sop.num >= 0 /\ sop.num <= sop.bsize
                     \/ sop.rc \in Translated /\ sop.num = NoNum
            /\ ( ~ WaitError(ev) /\ ~ hup /\ ~ Writable(ev) ) =>
                  /\ sends = { } /\ sop.num = NoNum
                  /\ sop.rc = "Stream/Writing/Timeout/Exhausted"

\* a wait reported a hangup on a descriptor that is writable too, and the write
\* returned 0 bytes without a send
C30_Witness ==
    /\ sop.name = "KSocketTimedWrite" /\ sop.pc = "done" /\ sop.bsize = 1
    /\ sop.ev = [ neg |-> FALSE, revents |-> { "POLLOUT", "POLLWRNORM", "POLLHUP" },
                  errno |-> "0" ]
    /\ sop.rc = "OK" /\ sop.num = 0
    /\ CallsOf(sys, "send") = { }

\* ---------------------------------------------------------------------------
\* C31
\* ---------------------------------------------------------------------------

\* the timeout a KSocketRead or KSocketWrite in progress is to pass on: the
\* object's read_timeout or write_timeout, NULL when that is negative
Configured ==
    LET millis == IF sop.name = "KSocketRead" THEN Self.read_timeout
                  ELSE Self.write_timeout
    IN  IF millis < 0 THEN NullTm ELSE [ null |-> FALSE, mS |-> millis ]

\* what the timed function does with the result ev of its wait
Classified(ev) ==
    IF sop.name \in SockReads THEN KSocketTimedRead_wait(ev.neg, ev.revents, ev.errno)
    ELSE KSocketTimedWrite_wait(ev.neg, ev.revents, ev.errno)

\* the names of the system calls in the log, in order
Names(log) == [ i \in 1 .. Len(log) |-> log[i].call ]

\* a KSocketRead or KSocketWrite in progress is a KSocketTimedRead or
\* KSocketTimedWrite with the configured timeout: the timeout it carries and
\* gives to socket_wait is the configured one, and after the wait it goes on
\* as the timed function does for that result of the wait
AsTimed ==
    ( sop.name \in { "KSocketRead", "KSocketWrite" } ) =>
        /\ sop.tm = Configured
        /\ Waited =>
              LET r == Classified(sop.ev)
                  next == IF sop.name = "KSocketRead" THEN "recv" ELSE "send"
              IN  /\ sys[1] = [ call |-> "socket_wait", fd |-> Self.fd, tm |-> Configured ]
                  /\ IF r.pc = "done"
                     THEN /\ sop.pc = "done" /\ sop.rc = r.rc /\ sop.num = r.num
                          /\ Names(sys) = << "socket_wait" >>
                     ELSE IF sop.pc = "done"
                          THEN Names(sys) = << "socket_wait", r.pc >>
                          ELSE sop.pc = r.pc /\ Names(sys) = << "socket_wait" >>

\* C31: KSocketRead and KSocketWrite are KSocketTimedRead and KSocketTimedWrite
\* called with the object's configured timeout: a negative read_timeout or
\* write_timeout is passed on as NULL, a value >= 0, 0 included, as a timeout of
\* that many milliseconds, the call then does what the timed function does, and
\* no step of it changes a field of the object
C31_DefaultTimeout ==
    [][ ( sop'.name \in { "KSocketRead", "KSocketWrite" } ) =>
            ( AsTimed' /\ sock' = sock /\ objs' = objs ) ]_vars

\* a KSocketRead on an object whose read_timeout is 0 has returned from a wait
\* that was given a timeout of 0 ms
C31_Witness ==
    /\ sop.name = "KSocketRead" /\ sop.pc = "done" /\ sock.read_timeout = 0
    /\ sys[1] = [ call |-> "socket_wait", fd |-> sock.fd, tm |-> ZeroTm ]
    /\ sop.rc = "Stream/Reading/Timeout/Exhausted"

\* the same with a negative read_timeout: the wait was given NULL
C31_WitnessBlocking ==
    /\ sop.name = "KSocketRead" /\ sop.pc = "done" /\ sock.read_timeout < 0
    /\ sys[1].tm = NullTm

\* ---------------------------------------------------------------------------
\* C32
\* ---------------------------------------------------------------------------

\* C32 as claimed: a listener that a Listen has made successfully has as type
\* the type of the endpoint it was made for, and an Accept on a listener takes
\* the path of the kind the listener was made for, IPC for a listener that owns
\* a path and IPv4 otherwise
C32_Original ==
    /\ ( sop.name = "Listen" /\ sop.pc = "done" /\ sop.rc = "OK" ) =>
          objs["listener"].type = sop.kind
    /\ ( sop.name = "Accept" /\ CallsOf(sys, "accept") # { } ) =>
          sop.kind = IF objs["listener"].path # "NULL" THEN epIPC ELSE epIPV4

\* ---------------------------------------------------------------------------
\* C33
\* ---------------------------------------------------------------------------

\* the descriptors the process holds open
OpenFds == { d \in 1 .. Len(fds) : fds[d].st = "open" }

\* C33: throughout a Connect the object's descriptor is unset before each
\* attempt's socket() and after each failed attempt; when it is set it is the
\* one descriptor the process holds open, never one that was closed, and when
\* it is unset no descriptor is open; no system call is made on a closed or
\* unset descriptor; and on return it is set exactly when the Connect succeeded
C33_OneDescriptor ==
    ( sop.name = "Connect" ) =>
        /\ sop.pc \in { "socket", "retry" } => sock.fd = NoFd
        /\ sop.pc \in { "bind", "connect", "dump" } => sock.fd # NoFd
        /\ IF sock.fd = NoFd THEN OpenFds = { } ELSE OpenFds = { sock.fd }
        /\ Cardinality(OpenFds) <= 1
        /\ ~ misuse
        /\ sop.pc = "done" => ( ( sock.fd # NoFd ) <=> ( sop.rc = "OK" ) )
        /\ sop.pc = "done" => ( salive <=> ( sop.rc = "OK" ) )

\* a Connect has given up after two attempts whose connect() failed: both
\* descriptors are closed and the object has none
C33_Witness ==
    /\ sop.name = "Connect" /\ sop.pc = "done" /\ sop.rc # "OK"
    /\ Len(fds) = 2 /\ fds[1].st = "closed" /\ fds[2].st = "closed"
    /\ Cardinality(CallsOf(sys, "connect")) = 2
    /\ sock.fd = NoFd

\* ---------------------------------------------------------------------------
\* C34
\* ---------------------------------------------------------------------------

\* C34: a Listen on an IPC endpoint comes to its bind after an unlink of the
\* endpoint's path, with no entry left at the path, whether or not one was
\* there; the listener has no path until the bind has succeeded, and the path
\* it then has is the one its descriptor is bound to; and a Listen that has
\* succeeded, IPv4 or IPC, ended with listen ( fd, 5 ) and left the descriptor
\* listening with a backlog of 5
C34_ListenSequence ==
    ( sop.name = "Listen" ) =>
        LET self == objs["listener"]
        IN  /\ ( sop.kind = epIPC /\ sop.pc = "l_bind" ) =>
                  /\ sys[Len(sys)].call = "unlink" /\ sys[Len(sys)].path = sop.path
                  /\ sop.path \notin fs
            /\ sop.pc \in { "l_socket", "l_unlink", "l_bind", "l_dump" } =>
                  ( self.alive /\ self.path = "NULL" )
            /\ ( self.alive /\ self.path # "NULL" ) =>
                  /\ sop.kind = epIPC /\ self.path = sop.path
                  /\ fds[self.fd].bound = self.path /\ self.path \in fs
                  /\ CallsOf(sys, "bind") # { }
            /\ ( sop.pc = "done" /\ sop.rc = "OK" ) =>
                  /\ sop.kind \in { epIPV4, epIPC }
                  /\ self.alive /\ OnFd(self.fd)
                  /\ fds[self.fd].listening /\ fds[self.fd].backlog = 5
                  /\ sys[Len(sys)] = [ call |-> "listen", fd |-> self.fd, backlog |-> 5 ]
                  /\ ( sop.kind = epIPC ) <=> ( self.path # "NULL" )

\* a Listen on an IPC endpoint has succeeded although an entry was at the path
\* when it began
C34_Witness ==
    /\ sop.name = "Listen" /\ sop.pc = "done" /\ sop.rc = "OK" /\ sop.kind = epIPC
    /\ \E i \in CallsOf(sys, "unlink") : sys[i].removed
    /\ objs["listener"].path = "/home/u/.ncbi/probe"
    /\ fds[objs["listener"].fd].backlog = 5

\* ---------------------------------------------------------------------------
\* Two threads on one connection: one reads, the other writes.  Each thread
\* has its own call in progress, its own errno and its own result of the wait;
\* the object and its descriptor are what they share.
\* ---------------------------------------------------------------------------

Sides == { "reader", "writer" }

\* the functions a thread of each side calls
OpsOf(t) == IF t = "reader" THEN SockReads ELSE SockOps \ SockReads

\* the results of the wait the two threads are answered with
WaitAnswers(t) ==
    { [ neg |-> FALSE, revents |-> r, errno |-> e ] :
        r \in { { }, { "POLLHUP" }, { "POLLERR" },
                IF t = "reader" THEN { "POLLIN", "POLLRDNORM" }
                ELSE { "POLLOUT", "POLLWRNORM" } },
        e \in { "0", "ECONNRESET" } }

\* thread t calls a read or a write on the connection
T_SockCall(t, op, bsize, tm) ==
    /\ salive /\ tcall[t].pc = "idle"
    /\ tcall' = [ tcall EXCEPT ![t] =
                    [ NoSop EXCEPT !.name = op, !.pc = "wait", !.bsize = bsize,
                                   !.tm = CASE op = "KSocketRead" -> DefaultTm(sock.read_timeout)
                                            [] op = "KSocketWrite" -> DefaultTm(sock.write_timeout)
                                            [] OTHER -> tm ] ]
    /\ UNCHANGED << alive, inited, kfile, call, trace, store, buffer, lastWrite, refvars,
                    initvars, held, whack, sockvars >>

\* [variant] a read that meets a hangup drops the descriptor from the object
T_SockWait_dropping(t, ev) ==
    /\ tcall[t].pc = "wait"
    /\ LET r == IF tcall[t].name \in SockReads
                THEN KSocketTimedRead_wait(ev.neg, ev.revents, ev.errno)
                ELSE KSocketTimedWrite_wait(ev.neg, ev.revents, ev.errno)
       IN  /\ tcall' = [ tcall EXCEPT ![t].pc = r.pc, ![t].rc = r.rc, ![t].num = r.num,
                                      ![t].ev = ev ]
           /\ sock' = IF r.num = 0 THEN [ sock EXCEPT !.fd = NoFd ] ELSE sock
    /\ sys' = Append(sys, [ call |-> "socket_wait", fd |-> sock.fd, tm |-> tcall[t].tm,
                            by |-> t ])
    /\ misuse' = ( misuse \/ ~ OnFd(sock.fd) )
    /\ UNCHANGED << alive, inited, kfile, call, trace, store, buffer, lastWrite, refvars,
                    initvars, held, whack, salive, fds, sop, objs, fs >>

\* the socket_wait of thread t returns ev, and the function classifies it
T_SockWait(t, ev) ==
    /\ tcall[t].pc = "wait"
    /\ LET r == IF tcall[t].name \in SockReads
                THEN KSocketTimedRead_wait(ev.neg, ev.revents, ev.errno)
                ELSE KSocketTimedWrite_wait(ev.neg, ev.revents, ev.errno)
       IN  tcall' = [ tcall EXCEPT ![t].pc = r.pc, ![t].rc = r.rc, ![t].num = r.num,
                                   ![t].ev = ev ]
    /\ sys' = Append(sys, [ call |-> "socket_wait", fd |-> sock.fd, tm |-> tcall[t].tm,
                            by |-> t ])
    /\ misuse' = ( misuse \/ ~ OnFd(sock.fd) )
    /\ UNCHANGED << alive, inited, kfile, call, trace, store, buffer, lastWrite, refvars,
                    initvars, held, whack, sock, salive, fds, sop, objs, fs >>

\* the system call that follows the wait of thread t, getsockopt, recv or send,
\* returns: count is the result of a recv or send, errno the error of a failed
\* one or the pending error getsockopt found ("0" for none)
T_SockAnswer(t, count, errno) ==
    /\ tcall[t].pc \in { "getsockopt", "recv", "send" }
    /\ count <= tcall[t].bsize
    /\ tcall[t].pc = "getsockopt" => count = 0 - 1
    /\ tcall' = [ tcall EXCEPT
                    ![t].pc = "done",
                    ![t].rc = IF tcall[t].pc = "getsockopt"
                              THEN IF errno # "0" THEN HandleErrno(errno)
                                   ELSE "Stream/Reading/NoObj/Unknown"
                              ELSE IF count >= 0 THEN "OK" ELSE HandleErrno(errno),
                    ![t].num = IF tcall[t].pc # "getsockopt" /\ count >= 0
                               THEN count ELSE NoNum,
                    ![t].retry_count = count,
                    ![t].path = errno ]
    /\ sys' = Append(sys, [ call |-> tcall[t].pc, fd |-> sock.fd, by |-> t ])
    /\ misuse' = ( misuse \/ ~ OnFd(sock.fd) )
    /\ UNCHANGED << alive, inited, kfile, call, trace, store, buffer, lastWrite, refvars,
                    initvars, held, whack, sock, salive, fds, sop, objs, fs >>

\* the function of thread t returns to its caller
T_SockReturn(t) ==
    /\ tcall[t].pc = "done"
    /\ tcall' = [ tcall EXCEPT ![t] = NoSop ]
    /\ sys' = SelectSeq(sys, LAMBDA c : c.by # t)
    /\ UNCHANGED << alive, inited, kfile, call, trace, store, buffer, lastWrite, refvars,
                    initvars, held, whack, sock, salive, fds, misuse, sop, objs, fs >>

InitRW ==
    /\ alive = FALSE
    /\ inited = FALSE
    /\ kfile = Blank
    /\ call = Idle
    /\ trace = << >>
    /\ store = << >>
    /\ buffer = << >>
    /\ lastWrite = NoWrite
    /\ nAdd = 0 /\ nRel = 0 /\ addFailed = FALSE /\ addAfterRel = FALSE
    /\ teardowns = 0 /\ whackRel = 0
    /\ debugging = FALSE
    /\ lastInit = NoInit
    /\ tcall = [ t \in Sides |-> NoSop ]
    /\ held = [ t \in Threads |-> 0 ]
    /\ whack = NoWhack
    /\ \E m \in Millis :
          sock = [ NoSock EXCEPT !.fd = 1, !.read_timeout = m, !.write_timeout = m ]
    /\ salive = TRUE
    /\ fds = << ConnectedFd(epIPV4) >>
    /\ sop = NoSop
    /\ sys = << >>
    /\ misuse = FALSE
    /\ objs = NoObjs
    /\ fs = { }

NextRW ==
    \/ \E t \in Sides, op \in SockOps :
          /\ op \in OpsOf(t)
          /\ T_SockCall(t, op, MaxBuf, ZeroTm)
    \/ \E t \in Sides : \E ev \in WaitAnswers(t) : T_SockWait(t, ev)
    \/ \E t \in Sides, count \in (0 - 1) .. MaxBuf, errno \in { "0", "ECONNRESET" } :
          /\ count >= 0 => errno = "0"
          /\ T_SockAnswer(t, count, errno)
    \/ \E t \in Sides : T_SockReturn(t)

SpecRW == InitRW /\ [][NextRW]_vars

\* ---------------------------------------------------------------------------
\* C35
\* ---------------------------------------------------------------------------

\* what the function of call c returns when it runs alone and is given the
\* result c.ev by its wait and, when it goes on to a getsockopt, recv or send,
\* the count and errno that call c was given
Alone(c) ==
    LET r == IF c.name \in SockReads
             THEN KSocketTimedRead_wait(c.ev.neg, c.ev.revents, c.ev.errno)
             ELSE KSocketTimedWrite_wait(c.ev.neg, c.ev.revents, c.ev.errno)
        count == c.retry_count
        errno == c.path
    IN  IF r.pc = "done" THEN [ rc |-> r.rc, num |-> r.num ]
        ELSE IF r.pc = "getsockopt"
        THEN [ rc |-> IF errno # "0" THEN HandleErrno(errno)
                      ELSE "Stream/Reading/NoObj/Unknown", num |-> NoNum ]
        ELSE IF count >= 0 THEN [ rc |-> "OK", num |-> count ]
        ELSE [ rc |-> HandleErrno(errno), num |-> NoNum ]

\* the calls thread t has made, by name and in order
CallsBy(t) ==
    LET mine == SelectSeq(sys, LAMBDA c : c.by = t)
    IN  [ i \in 1 .. Len(mine) |-> mine[i].call ]

\* C35: with a read in one thread and a write in another on the same
\* connection, interleaved in any order, no step of either changes a field of
\* the object or the descriptor, each step changes the call of one thread
\* only, and a call that has returned made the system calls and returns the rc
\* and count that the same function returns when it runs alone with the same
\* answers from the OS
C35_ReadWriteIndependent ==
    [][ /\ sock' = sock /\ fds' = fds /\ salive' = salive
        /\ \E t \in Sides : \A u \in Sides \ { t } : tcall'[u] = tcall[u]
        /\ \A t \in Sides :
              tcall'[t].pc = "done" =>
                  LET c == tcall'[t]
                      r == IF c.name \in SockReads
                           THEN KSocketTimedRead_wait(c.ev.neg, c.ev.revents, c.ev.errno)
                           ELSE KSocketTimedWrite_wait(c.ev.neg, c.ev.revents, c.ev.errno)
                  IN  /\ c.rc = Alone(c).rc /\ c.num = Alone(c).num
                      /\ CallsBy(t)' = IF r.pc = "done" THEN << "socket_wait" >>
                                       ELSE << "socket_wait", r.pc >> ]_vars

\* a read has returned a byte while a write, begun before it and answered
\* after the read's wait, has returned a count too
C35_Witness ==
    /\ tcall["reader"].pc = "done" /\ tcall["reader"].rc = "OK" /\ tcall["reader"].num = 1
    /\ tcall["writer"].pc = "done" /\ tcall["writer"].rc = "OK" /\ tcall["writer"].num = 1
    /\ [ i \in 1 .. Len(sys) |-> sys[i].by ]
          = << "writer", "reader", "writer", "reader" >>

(***************************************************************************)
(* C36.  The completion loops (ReadAll, TimedReadAll, ReadExactly,        *)
(* TimedReadExactly, WriteAll, TimedWriteAll), with a backend that never  *)
(* reports more than it was asked for: every backend call, made or        *)
(* pending, has offset pos + total and length size - total, the buffer    *)
(* position of the pending call is total, where total is the sum of the   *)
(* counts returned before it and is below size; the sum never exceeds     *)
(* size, and the count an All operation reports is that sum.              *)
(***************************************************************************)
LoopOps == ReadAllOps \cup ExactlyOps \cup WriteAllOps

C36_LoopInvariant ==
    call.op \in LoopOps =>
        /\ \A i \in 1 .. Len(trace) :
              LET total == SumCounts(SubSeq(trace, 1, i - 1)) IN
              /\ trace[i].off = call.pos + total
              /\ trace[i].len = call.size - total
              /\ total < call.size
        /\ SumCounts(trace) <= call.size
        /\ call.pc = "wait" =>
              /\ call.total = SumCounts(trace)
              /\ call.req.off = call.pos + call.total
              /\ call.req.len = call.size - call.total
              /\ call.total < call.size
        /\ ( Done /\ LoopRan ) => call.total = SumCounts(trace)
        /\ ( Done /\ LoopRan /\ call.op \in ReadAllOps \cup WriteAllOps ) =>
              call.num = SumCounts(trace)

\* a write completed by three backend calls of one byte each
C36_Witness ==
    /\ Done /\ call.op \in WriteAllOps /\ call.rc = "OK"
    /\ Len(trace) = 3 /\ call.size = 3 /\ call.num = 3
    /\ trace[3].off = call.pos + 2 /\ trace[3].len = 1

\* a ReadExactly that asks again after a timeout in the middle of the transfer
C36_WitnessTimeout ==
    /\ call.op \in ExactlyOps /\ call.pc = "wait"
    /\ Len(trace) = 2 /\ trace[1].count = 1 /\ trace[2].rc = "Timeout"
    /\ call.total = 1 /\ call.req.off = call.pos + 1

(***************************************************************************)
(* C37.  Termination of KFileReadExactly, and of KFileTimedReadExactly    *)
(* given a NULL timeout.  The backend answers every call made to it       *)
(* (weak fairness of BackendRespond), and answers Timeout/Exhausted at    *)
(* most MaxTimeouts times within one call (Responses).  Then every pass   *)
(* of the loop that is not a retried timeout adds to total or ends the    *)
(* call, and the call returns.                                            *)
(***************************************************************************)
SpecLive == Init /\ [][Next]_vars /\ WF_vars(BackendRespond)

\* an unbounded-blocking exact read is under way, through a function the table has
BlockingExactly ==
    /\ call.op \in ExactlyOps /\ ( call.op = "ReadExactly" \/ call.tm = "null" )
    /\ Running
    /\ call.pc = "wait" => call.req.fn \in kfile.vt.fns

C37_ExactlyTerminates ==
    /\ [][ ( BlockingExactly /\ call.pc = "wait" /\ trace' # trace ) =>
              \/ IsTimeout(Last(trace').rc) /\ call'.pc = "wait" /\ call'.total = call.total
              \/ call'.total > call.total
              \/ call'.pc = "done" ]_vars
    /\ ( BlockingExactly ~> Done )

\* an exact read has returned success after the backend timed out as often as
\* it may, in a row, in the middle of the transfer
C37_Witness ==
    /\ Done /\ call.op \in ExactlyOps /\ ( call.op = "ReadExactly" \/ call.tm = "null" )
    /\ call.rc = "OK" /\ Len(trace) = MaxTimeouts + 2
    /\ \A i \in 2 .. MaxTimeouts + 1 : trace[i].rc = "Timeout"
    /\ trace[1].count > 0 /\ Last(trace).count > 0

(***************************************************************************)
(* C38.  An object KFileInit returned success for has a table of major    *)
(* version 1 and minor version 0, 1 or 2, the table KFileInit was given,  *)
(* for as long as it lives; on such an object an operation of the         *)
(* contract returns BadVersion only when it is a timed transfer given a   *)
(* non-NULL timeout and the table's minor version is below 2.             *)
(***************************************************************************)
C38_VersionFixed ==
    inited =>
        /\ alive => /\ kfile.vt.maj = 1 /\ kfile.vt.min \in { 0, 1, 2 }
                    /\ kfile.vt = lastInit.vt
        /\ ( Done /\ call.rc = "BadVersion" ) =>
              /\ call.op \in TimedOps /\ call.tm = "caller"
              /\ kfile.vt.maj = 1 /\ kfile.vt.min < 2
              /\ trace = << >>

\* a timed write with a timeout, refused on a table of minor version 1
C38_Witness ==
    /\ inited /\ alive /\ Done /\ call.rc = "BadVersion"
    /\ call.op = "TimedWriteAll" /\ call.tm = "caller" /\ call.size > 0
    /\ kfile.vt.maj = 1 /\ kfile.vt.min = 1 /\ kfile.write_enabled

\* ---------------------------------------------------------------------------
\* C39
\* ---------------------------------------------------------------------------

\* the descriptors the function in progress got from socket() or accept()
Obtained ==
    { sys[i].fd : i \in { j \in 1 .. Len(sys) : sys[j].call = "socket" /\ sys[j].fd # NoFd } }
        \cup ( IF sop.name = "Accept" /\ \E i \in 1 .. Len(sys) :
                                            sys[i].call = "accept" /\ sys[i].len # "none"
               THEN { objs["server"].fd } ELSE { } )

\* C39 as claimed: when Connect, Listen or Accept has returned an error, every
\* descriptor the call got from socket() or accept() is closed, and the object
\* the call would have handed out does not exist
C39_Original ==
    ( sop.pc = "done" /\ sop.name \in { "Connect", "Listen", "Accept" } /\ sop.rc # "OK" ) =>
        /\ \A d \in Obtained : fds[d].st # "open"
        /\ CASE sop.name = "Connect" -> ~ salive
             [] sop.name = "Listen" -> ~ objs["listener"].alive
             [] sop.name = "Accept" -> ~ objs["server"].alive

\* listen() failed after a successful bind: the descriptor is left open
C39_ListenLeak ==
    /\ sop.pc = "done" /\ sop.name = "Listen" /\ sop.rc # "OK"
    /\ \E i \in 1 .. Len(sys) : sys[i].call = "listen"
    /\ \E d \in Obtained : fds[d].st = "open"

\* Accept refused a peer address that did not fit: the accepted descriptor is
\* left open
C39_AcceptLeak ==
    /\ sop.pc = "done" /\ sop.name = "Accept"
    /\ sop.rc = "Connection/Waiting/Buffer/Insufficient"
    /\ ~ objs["server"].alive /\ fds[objs["server"].fd].st = "open"

\* ---------------------------------------------------------------------------
\* C40
\* ---------------------------------------------------------------------------

\* a Connect to an IPC endpoint whose name KSocketMakePath could not resolve
Unresolved == sop.name = "Connect" /\ sop.kind = epIPC /\ sop.path = ""

\* C40 as claimed: a Connect to an IPC endpoint whose name did not resolve to
\* a path makes no system call, so opens no descriptor and attempts no
\* connection, takes no retry, and returns the error of the resolution
C40_Original ==
    Unresolved =>
        /\ sys = << >>
        /\ sop.retry_count = 0
        /\ sop.pc = "done" => sop.rc = KSocketMakePath("NULL", "probe").rc

\* without HOME the Connect went through socket, connect and a retry, and
\* returned the error of its last connect
C40_ErrorReplaced ==
    /\ Unresolved /\ sop.pc = "done" /\ sop.retry_count >= 1
    /\ CallsOf(sys, "connect") # { }
    /\ sop.rc # "OK" /\ sop.rc # KSocketMakePath("NULL", "probe").rc


====
